---- MODULE Spec2Model ----
(***************************************************************************)
(* CodePulse: the deep-analysis engine (control-flow, data-flow and call   *)
(* graphs over a parsed syntax tree), the clone detector and the           *)
(* comprehensive scanner that runs them on a file.                         *)
(*                                                                         *)
(* A syntax tree is a sequence of nodes in pre-order; node 0 is the        *)
(* Module.  Every node names its parent and the field of the parent that   *)
(* holds it, as the ast module does.                                       *)
(***************************************************************************)
EXTENDS Integers, Sequences, FiniteSets, TLC

VARIABLES
    pc,            \* position of the run under way
    tree,          \* the parsed tree handed to the builders
    cfg,           \* DeepAnalysisEngine.cfg (SimpleGraph)
    node_counter,  \* DeepAnalysisEngine.node_counter
    dfg,           \* DeepAnalysisEngine.dfg (SimpleGraph)
    call_graph,    \* DeepAnalysisEngine.call_graph (SimpleGraph)
    result,        \* what the last operation returned
    file,          \* the file (or the files) the last operation was given
    detector,      \* the CloneDetector: min_lines and clones
    scanner        \* the ComprehensiveScanner: results and the directory scan

vars == <<pc, tree, cfg, node_counter, dfg, call_graph, result, file, detector, scanner>>

\* the part of the state a run does not touch
Idle == [status |-> "idle"]

\* ---------------------------------------------------------------- bounds
MaxNodes == 4

\* ------------------------------------------------------------ syntax tree
None == -1

Node(k, p, f, i, c) == [kind |-> k, parent |-> p, field |-> f, id |-> i, ctx |-> c]

Range(s) == {s[i] : i \in 1..Len(s)}

Idx(t) == [i \in 1..Len(t) |-> i]

\* ast.iter_child_nodes(node): the children in field order, which is the
\* order of the pre-order sequence
iter_child_nodes(t, p) == SelectSeq(Idx(t), LAMBDA i : t[i].parent = p)

\* node.<field>: the children held by one field
FieldOf(t, p, f) == SelectSeq(Idx(t), LAMBDA i : t[i].parent = p /\ t[i].field = f)

RECURSIVE Flatten(_)
Flatten(ss) == IF ss = <<>> THEN <<>> ELSE Head(ss) \o Flatten(Tail(ss))

\* ------------------------------------------------------------ SimpleGraph
\* nodes is a dict: keys in insertion order plus the attributes per key
SimpleGraph == [keys |-> <<>>, attrs |-> <<>>, edges |-> <<>>]

add_node(g, node_id, a) ==
    IF node_id \in Range(g.keys)
    THEN [g EXCEPT !.attrs = [k \in DOMAIN g.attrs |->
                                 IF g.keys[k] = node_id THEN a ELSE g.attrs[k]]]
    ELSE [g EXCEPT !.keys = Append(g.keys, node_id), !.attrs = Append(g.attrs, a)]

\* nx.DiGraph(): the same shape; its adjacency holds an edge once, in the
\* order of insertion
DiGraph == [keys |-> <<>>, attrs |-> <<>>, edges |-> <<>>, adj |-> TRUE]

is_DiGraph(g) == "adj" \in DOMAIN g

\* self.cfg.add_edge(...) on the graph class of the engine
add_edge(g, src, dst) ==
    [g EXCEPT !.edges = IF is_DiGraph(g) /\ <<src, dst>> \in Range(@) THEN @
                        ELSE Append(@, <<src, dst>>)]

number_of_nodes(g) == Len(g.keys)

number_of_edges(g) == Len(g.edges)

EdgeIdx(g) == [i \in 1..Len(g.edges) |-> i]

successors(g, n) ==
    LET sel == SelectSeq(EdgeIdx(g), LAMBDA i : g.edges[i][1] = n)
    IN  [i \in 1..Len(sel) |-> g.edges[sel[i]][2]]

in_degree(g, n) == Cardinality({i \in 1..Len(g.edges) : g.edges[i][2] = n})

out_degree(g, n) == Cardinality({i \in 1..Len(g.edges) : g.edges[i][1] = n})

\* ------------------------------------------------ build_control_flow_graph
LoopKinds == {"While", "For"}

\* the statements of the bodies of all handlers of a Try, handler by handler
HandlerBodies(t, n) ==
    LET hs == FieldOf(t, n, "handlers")
    IN  Flatten([i \in 1..Len(hs) |-> FieldOf(t, hs[i], "body")])

RECURSIVE visit_node(_, _, _, _), visit_all(_, _, _, _)

\* a builder whose back-edge leaves the first node of the loop body
visit_node_first(t, n, parent_id, st) ==
    LET current_id == st.counter
        g1 == add_node(st.g, current_id, [type |-> t[n].kind])
        g2 == IF parent_id # None THEN add_edge(g1, parent_id, current_id) ELSE g1
        s2 == [g |-> g2, counter |-> st.counter + 1]
    IN  IF t[n].kind = "If"
        THEN visit_all(t, FieldOf(t, n, "orelse"), current_id,
                       visit_all(t, FieldOf(t, n, "body"), current_id, s2))
        ELSE IF t[n].kind \in LoopKinds
        THEN LET loop_start == s2.counter
                 s3 == visit_all(t, FieldOf(t, n, "body"), current_id, s2)
             IN  IF loop_start < s3.counter
                 THEN [s3 EXCEPT !.g = add_edge(s3.g, loop_start, current_id)]
                 ELSE s3
        ELSE IF t[n].kind = "Try"
        THEN visit_all(t, HandlerBodies(t, n), current_id,
                       visit_all(t, FieldOf(t, n, "body"), current_id, s2))
        ELSE visit_all(t, iter_child_nodes(t, n), current_id, s2)

\* st = [g |-> the graph, counter |-> node_counter]
visit_node(t, n, parent_id, st) ==
    LET current_id == st.counter
        g1 == add_node(st.g, current_id, [type |-> t[n].kind])
        g2 == IF parent_id # None THEN add_edge(g1, parent_id, current_id) ELSE g1
        s2 == [g |-> g2, counter |-> st.counter + 1]
    IN  IF t[n].kind = "If"
        THEN visit_all(t, FieldOf(t, n, "orelse"), current_id,
                       visit_all(t, FieldOf(t, n, "body"), current_id, s2))
        ELSE IF t[n].kind \in LoopKinds
        THEN LET loop_start == s2.counter
                 s3 == visit_all(t, FieldOf(t, n, "body"), current_id, s2)
             IN  IF loop_start < s3.counter
                 THEN [s3 EXCEPT !.g = add_edge(s3.g, s3.counter - 1, current_id)]
                 ELSE s3
        ELSE IF t[n].kind = "Try"
        THEN visit_all(t, HandlerBodies(t, n), current_id,
                       visit_all(t, FieldOf(t, n, "body"), current_id, s2))
        ELSE visit_all(t, iter_child_nodes(t, n), current_id, s2)

\* the loops `for stmt in ...: visit_node(stmt, current_id)`, one statement
\* after the other: every visit takes at least one number of the counter
visit_all(t, ns, parent_id, st) ==
    IF ns = <<>> THEN st
    ELSE LET s1 == visit_node(t, Head(ns), parent_id, st)
         IN  IF s1.counter > st.counter THEN visit_all(t, Tail(ns), parent_id, s1) ELSE s1

\* build_control_flow_graph without the two resetting assignments
build_control_flow_graph_kept(t, old) ==
    visit_all(t, iter_child_nodes(t, 0), None, old)

\* the graph and the counter are rebuilt from scratch, whatever they were
build_control_flow_graph(t, old) ==
    visit_all(t, iter_child_nodes(t, 0), None, [g |-> SimpleGraph, counter |-> 0])

\* ----------------------------------------------------- _analyze_control_flow
BranchThreshold == 10

RECURSIVE Reach(_, _, _)
\* the stack loop of the reachability search: pop, mark, push the successors
Reach(g, stack, reachable) ==
    IF stack = <<>> THEN reachable
    ELSE LET node == stack[Len(stack)]
             rest == SubSeq(stack, 1, Len(stack) - 1)
         IN  IF node \notin reachable
             THEN Reach(g, rest \o successors(g, node), reachable \cup {node})
             ELSE Reach(g, rest, reachable)

IndexOf(s, x) == CHOOSE i \in 1..Len(s) : s[i] = x /\ \A j \in 1..(i - 1) : s[j] # x

RECURSIVE dfs(_, _, _, _), dfs_neighbors(_, _, _, _)

\* s = [visited, rec_stack, cycles]; path is the caller's copy
dfs(g, node, path, s) ==
    LET path1 == Append(path, node)
        s1 == [s EXCEPT !.visited = @ \cup {node}, !.rec_stack = @ \cup {node}]
        s2 == dfs_neighbors(g, successors(g, node), path1, s1)
    IN  [s2 EXCEPT !.rec_stack = @ \ {node}]

dfs_neighbors(g, nbs, path, s) ==
    IF nbs = <<>> THEN s
    ELSE IF Head(nbs) \notin s.visited
    THEN dfs_neighbors(g, Tail(nbs), path, dfs(g, Head(nbs), path, s))
    ELSE IF Head(nbs) \in s.rec_stack
    THEN dfs_neighbors(g, Tail(nbs), path,
            [s EXCEPT !.cycles =
                Append(@, SubSeq(path, IndexOf(path, Head(nbs)), Len(path)))])
    ELSE dfs_neighbors(g, Tail(nbs), path, s)

RECURSIVE find_all(_, _, _)
find_all(g, ks, s) ==
    IF ks = <<>> THEN s
    ELSE IF Head(ks) \notin s.visited
    THEN find_all(g, Tail(ks), dfs(g, Head(ks), <<>>, s))
    ELSE find_all(g, Tail(ks), s)

\* _find_cycles and _find_call_cycles: the same search over cfg / call_graph
find_cycles_in(g) ==
    find_all(g, g.keys, [visited |-> {}, rec_stack |-> {}, cycles |-> <<>>]).cycles

_find_cycles(g) == find_cycles_in(g)

\* has_exit with the membership test turned round
has_exit_inside(g, cycle) ==
    \E i \in 1..Len(cycle) :
        \E j \in 1..Len(successors(g, cycle[i])) :
            successors(g, cycle[i])[j] \in Range(cycle)

has_exit(g, cycle) ==
    \E i \in 1..Len(cycle) :
        \E j \in 1..Len(successors(g, cycle[i])) :
            successors(g, cycle[i])[j] \notin Range(cycle)

Issue(t, sev, n) == [type |-> t, severity |-> sev, count |-> n]

root_nodes(g) == SelectSeq(g.keys, LAMBDA n : in_degree(g, n) = 0)

\* the reachability part: the warning, or nothing
unreachable_issues(g) ==
    IF Len(g.keys) > 0 /\ root_nodes(g) # <<>>
    THEN LET unreachable == Range(g.keys) \ Reach(g, root_nodes(g), {})
         IN  IF unreachable # {}
             THEN <<Issue("unreachable_code", "warning", Cardinality(unreachable))>>
             ELSE <<>>
    ELSE <<>>

infinite_loop_issues(g, cycles) ==
    LET noexit == SelectSeq(cycles, LAMBDA c : ~has_exit(g, c))
    IN  [i \in 1..Len(noexit) |-> Issue("potential_infinite_loop", "error", 0)]

branch_nodes(g) == SelectSeq(g.keys, LAMBDA n : out_degree(g, n) > 1)

\* an analysis whose complexity is the number of cycles, without the 1
_analyze_control_flow_no_base(g) ==
    LET cycles == _find_cycles(g)
        bn == branch_nodes(g)
        issues == unreachable_issues(g) \o infinite_loop_issues(g, cycles) \o
                  (IF Len(bn) > BranchThreshold
                   THEN <<Issue("high_branching", "warning", Len(bn))>> ELSE <<>>)
    IN  [issues |-> issues,
         total_nodes |-> number_of_nodes(g),
         total_edges |-> number_of_edges(g),
         branch_points |-> Len(bn),
         cyclomatic_complexity |-> IF cycles # <<>> THEN Len(cycles) ELSE 1]

_analyze_control_flow(g) ==
    LET cycles == _find_cycles(g)
        bn == branch_nodes(g)
        issues == unreachable_issues(g) \o infinite_loop_issues(g, cycles) \o
                  (IF Len(bn) > BranchThreshold
                   THEN <<Issue("high_branching", "warning", Len(bn))>> ELSE <<>>)
    IN  [issues |-> issues,
         total_nodes |-> number_of_nodes(g),
         total_edges |-> number_of_edges(g),
         branch_points |-> Len(bn),
         cyclomatic_complexity |-> IF cycles # <<>> THEN Len(cycles) + 1 ELSE 1]

\* ------------------------------------------------------------ input trees
\* the fields of a node kind, in the order the ast module lists them
FieldsOf(k) ==
    CASE k = "Module" -> <<"body">>
      [] k = "If" -> <<"test", "body", "orelse">>
      [] k = "While" -> <<"test", "body", "orelse">>
      [] k = "For" -> <<"target", "iter", "body", "orelse">>
      [] k = "Try" -> <<"body", "handlers", "orelse", "finalbody">>
      [] k = "ExceptHandler" -> <<"type", "body">>
      [] k = "Assign" -> <<"targets", "value">>
      [] k = "AugAssign" -> <<"target", "op", "value">>
      [] k = "Call" -> <<"func", "args">>
      [] k = "FunctionDef" -> <<"args", "body">>
      [] k = "Expr" -> <<"value">>
      [] k = "NamedExpr" -> <<"target", "value">>
      [] k = "Return" -> <<"value">>
      [] k = "BinOp" -> <<"left", "op", "right">>
      [] k = "Name" -> <<"ctx">>
      [] OTHER -> <<>>

FieldNames == {"body", "orelse", "handlers", "finalbody", "targets", "args", "test", "value", "func", "target", "iter", "type", "left", "op", "right", "ctx"}

SingleFields == {"test", "value", "func", "target", "iter", "type", "args", "left", "op", "right", "ctx"}

FieldRank(k, f) == IndexOf(FieldsOf(k), f)

KindAt(t, p) == IF p = 0 THEN "Module" ELSE t[p].kind

RECURSIVE AncestorsOrSelf(_, _)
AncestorsOrSelf(t, n) == IF n = 0 THEN {0} ELSE {n} \cup AncestorsOrSelf(t, t[n].parent)

\* the fields of `kind` that the parser always fills (none for a family of
\* hand-built trees)
Required(fam, k) == IF k \in DOMAIN fam.required THEN fam.required[k] ELSE {}

HasAll(t, n, fs) == \A f \in fs : FieldOf(t, n, f) # <<>>

\* a node may be appended under any node of the rightmost path, in a field
\* that does not come before the field of the last child already there;
\* the nodes this closes, and the fields it passes over, must be filled
CanAppend(t, p, v, fam) ==
    LET cs == iter_child_nodes(t, p)
        pk == KindAt(t, p)
        closed == AncestorsOrSelf(t, Len(t)) \ AncestorsOrSelf(t, p)
    IN  /\ v.field \in Range(FieldsOf(pk))
        /\ cs # <<>> =>
              LET lastf == t[cs[Len(cs)]].field
              IN  /\ FieldRank(pk, lastf) <= FieldRank(pk, v.field)
                  /\ (lastf = v.field => v.field \notin SingleFields)
        /\ \A c \in closed : HasAll(t, c, Required(fam, t[c].kind))
        /\ HasAll(t, p, {f \in Required(fam, pk) :
                            FieldRank(pk, f) < FieldRank(pk, v.field)})

Extend(t, fam) ==
    UNION {{Append(t, Node(v.kind, p, v.field, v.id, v.ctx)) :
               v \in {w \in fam.kids[KindAt(t, p)] : CanAppend(t, p, w, fam)}} :
           p \in {q \in AncestorsOrSelf(t, Len(t)) : KindAt(t, q) \in DOMAIN fam.kids}}

Complete(t, fam) == \A n \in 1..Len(t) : HasAll(t, n, Required(fam, t[n].kind))

\* the required fields still to be filled, each taking a node at least
Missing(t, fam) ==
    Cardinality({<<c, f>> \in AncestorsOrSelf(t, Len(t)) \X FieldNames :
                    c # 0 /\ f \in Required(fam, t[c].kind) /\ FieldOf(t, c, f) = <<>>})

RECURSIVE TreesFrom(_, _, _)
\* all trees of at most n more nodes grown from the trees of S, without
\* those that n nodes cannot complete
TreesFrom(S, n, fam) ==
    IF n = 0 \/ S = {} THEN S
    ELSE S \cup TreesFrom({t \in UNION {Extend(u, fam) : u \in S} : Missing(t, fam) < n},
                          n - 1, fam)

TreesUpTo(n, fam) == {t \in TreesFrom({<<>>}, n, fam) : Complete(t, fam)}

Tmpl(k, f) == [kind |-> k, field |-> f, id |-> "", ctx |-> ""]

\* control-flow shaped trees: statements nested in conditionals, loops and
\* exception constructs, with the test expressions the builder passes over
StmtIn(f) == {Tmpl(k, f) : k \in {"If", "While", "Try", "Pass"}}

ControlFamily ==
    [kids |-> [k \in {"Module", "If", "While", "Try", "ExceptHandler"} |->
        CASE k = "Module" -> StmtIn("body")
          [] k = "If" -> {Tmpl("Compare", "test")} \cup StmtIn("body") \cup StmtIn("orelse")
          [] k = "While" -> {Tmpl("Compare", "test")} \cup StmtIn("body")
          [] k = "Try" -> StmtIn("body") \cup {Tmpl("ExceptHandler", "handlers")}
          [] k = "ExceptHandler" -> StmtIn("body")],
     required |-> <<>>]

\* ------------------------------------------------------------------------
\* Control-flow run: a parsed tree, build_control_flow_graph, then
\* _analyze_control_flow
NoResult == [status |-> "none"]

InitCFG ==
    /\ pc = "parsed"
    /\ tree \in TreesUpTo(MaxNodes, ControlFamily)
    /\ cfg = SimpleGraph
    /\ node_counter = 0
    /\ dfg = SimpleGraph
    /\ call_graph = SimpleGraph
    /\ result = NoResult
    /\ file = Idle
    /\ detector = Idle
    /\ scanner = Idle

BuildControlFlowGraph ==
    /\ pc = "parsed"
    /\ LET st == build_control_flow_graph(tree, [g |-> cfg, counter |-> node_counter])
       IN  /\ cfg' = st.g
           /\ node_counter' = st.counter
    /\ pc' = "built"
    /\ UNCHANGED <<tree, dfg, call_graph, result, file, detector, scanner>>

AnalyzeControlFlow ==
    /\ pc = "built"
    /\ result' = [status |-> "ok", control_flow_analysis |-> _analyze_control_flow(cfg)]
    /\ pc' = "analyzed"
    /\ UNCHANGED <<tree, cfg, node_counter, dfg, call_graph, file, detector, scanner>>

NextCFG == BuildControlFlowGraph \/ AnalyzeControlFlow

SpecCFG == InitCFG /\ [][NextCFG]_vars

\* ---------------------------------------------------- control-flow claims
TopLevel(t) == iter_child_nodes(t, 0)

CfgKeys == Range(cfg.keys)

CfgEdges == Range(cfg.edges)

NoPredecessor(n) == \A e \in CfgEdges : e[2] # n

IssuesOfType(r, ty) == SelectSeq(r.issues, LAMBDA i : i.type = ty)

\* C1: after build_control_flow_graph on a non-empty tree every node id is
\* unique, every edge joins existing nodes, and some node has in-degree 0
C1_WellFormed ==
    (pc = "built" /\ TopLevel(tree) # <<>>) =>
        /\ Cardinality(CfgKeys) = Len(cfg.keys)
        /\ Len(cfg.keys) = node_counter
        /\ \A e \in CfgEdges : e[1] \in CfgKeys /\ e[2] \in CfgKeys
        /\ \E n \in CfgKeys : NoPredecessor(n)

\* the tree is one loop whose body is one statement without children
IsLoopOfOne(t) ==
    /\ Len(TopLevel(t)) = 1
    /\ t[1].kind \in LoopKinds
    /\ Len(FieldOf(t, 1, "body")) = 1
    /\ iter_child_nodes(t, FieldOf(t, 1, "body")[1]) = <<>>

LeavesCycle(c) == \E e \in CfgEdges : e[1] \in Range(c) /\ e[2] \notin Range(c)

InfiniteLoopIssues == IssuesOfType(result.control_flow_analysis, "potential_infinite_loop")

\* C2: the `while True: pass` tree gives exactly one cycle, without an exit,
\* and exactly one potential_infinite_loop error; a cycle that has a node
\* with a successor outside it gives no such issue
C2_InfiniteLoop ==
    pc = "analyzed" =>
        LET cycles == _find_cycles(cfg)
        IN  /\ IsLoopOfOne(tree) =>
                  /\ cycles = << <<0, 1>> >>
                  /\ ~LeavesCycle(cycles[1])
                  /\ InfiniteLoopIssues = <<Issue("potential_infinite_loop", "error", 0)>>
            /\ Len(InfiniteLoopIssues) =
                  Cardinality({i \in 1..Len(cycles) : ~LeavesCycle(cycles[i])})

C2_Witness ==
    /\ pc = "analyzed"
    /\ IsLoopOfOne(tree)
    /\ Len(InfiniteLoopIssues) = 1

\* a loop whose cycle has an exit was analysed and nothing was reported
C2_WitnessExit ==
    /\ pc = "analyzed"
    /\ Len(_find_cycles(cfg)) = 1
    /\ LeavesCycle(_find_cycles(cfg)[1])
    /\ InfiniteLoopIssues = <<>>

RECURSIVE ForwardClosure(_)
ForwardClosure(S) ==
    LET S2 == S \cup {e[2] : e \in {x \in CfgEdges : x[1] \in S}}
    IN  IF S2 = S THEN S ELSE ForwardClosure(S2)

UnreachableSet == CfgKeys \ ForwardClosure({n \in CfgKeys : NoPredecessor(n)})

UnreachableIssues == IssuesOfType(result.control_flow_analysis, "unreachable_code")

\* C3: the unreachable set is all nodes minus those reachable from the
\* in-degree-0 nodes; exactly one unreachable_code warning with its size is
\* emitted when it is non-empty, none when it is empty
C3_Unreachable ==
    pc = "analyzed" =>
        IF UnreachableSet # {}
        THEN UnreachableIssues =
                <<Issue("unreachable_code", "warning", Cardinality(UnreachableSet))>>
        ELSE UnreachableIssues = <<>>

\* --------------------------------------------------- build_data_flow_graph
\* sources are laid out one node per line, in pre-order
lineno(t, n) == n

\* a defaultdict(list): keys in insertion order, a list per key
EmptyDict == [keys |-> <<>>, vals |-> <<>>]

dict_get(d, k) == IF k \in Range(d.keys) THEN d.vals[IndexOf(d.keys, k)] ELSE <<>>

dict_append(d, k, v) ==
    IF k \in Range(d.keys)
    THEN [d EXCEPT !.vals[IndexOf(d.keys, k)] = Append(@, v)]
    ELSE [keys |-> Append(d.keys, k), vals |-> Append(d.vals, <<v>>)]

RECURSIVE walk_queue(_, _)
walk_queue(t, todo) ==
    IF todo = <<>> THEN <<>>
    ELSE <<Head(todo)>> \o walk_queue(t, Tail(todo) \o iter_child_nodes(t, Head(todo)))

\* ast.walk(node): the node and everything below it, breadth-first
walk(t, n) == walk_queue(t, <<n>>)

RECURSIVE append_all(_, _, _, _)
\* d[t[n].id].append(line) for every Name n of ns
append_all(t, ns, line, d) ==
    IF ns = <<>> THEN d
    ELSE append_all(t, Tail(ns), line,
                    IF t[Head(ns)].kind = "Name"
                    THEN dict_append(d, t[Head(ns)].id, line) ELSE d)

\* the nodes of the value of an Assign, Store targets inside it included
value_names(t, n) == Flatten([i \in 1..Len(FieldOf(t, n, "value")) |->
                                 walk(t, FieldOf(t, n, "value")[i])])

RECURSIVE visit(_, _, _), generic_visit(_, _, _)

\* DataFlowVisitor: st = [definitions, uses]
visit(t, n, st) ==
    IF t[n].kind = "Assign"
    THEN LET s1 == [st EXCEPT !.definitions =
                        append_all(t, FieldOf(t, n, "targets"), lineno(t, n), @)]
             s2 == [s1 EXCEPT !.uses = append_all(t, value_names(t, n), lineno(t, n), @)]
         IN  generic_visit(t, iter_child_nodes(t, n), s2)
    ELSE IF t[n].kind = "Name"
    THEN generic_visit(t, iter_child_nodes(t, n),
                       IF t[n].ctx = "Load"
                       THEN [st EXCEPT !.uses = dict_append(@, t[n].id, lineno(t, n))]
                       ELSE st)
    ELSE generic_visit(t, iter_child_nodes(t, n), st)

\* one child after the other: a visit only adds to the two dicts
generic_visit(t, ns, st) ==
    IF ns = <<>> THEN st
    ELSE LET s1 == visit(t, Head(ns), st)
         IN  IF Len(s1.uses.keys) >= Len(st.uses.keys)
             THEN generic_visit(t, Tail(ns), s1) ELSE s1

\* set(list(definitions.keys()) + list(uses.keys())): every key once
RECURSIVE Dedup(_)
Dedup(s) ==
    IF s = <<>> THEN <<>>
    ELSE LET r == Dedup(SubSeq(s, 1, Len(s) - 1))
         IN  IF s[Len(s)] \in Range(r) THEN r ELSE Append(r, s[Len(s)])

RECURSIVE add_variables(_, _, _)
add_variables(g, vs, st) ==
    IF vs = <<>> THEN g
    ELSE add_variables(add_node(g, Head(vs),
                                [definitions |-> dict_get(st.definitions, Head(vs)),
                                 uses |-> dict_get(st.uses, Head(vs))]),
                       Tail(vs), st)

build_data_flow_graph(t, old) ==
    LET st == generic_visit(t, iter_child_nodes(t, 0),
                            [definitions |-> EmptyDict, uses |-> EmptyDict])
    IN  add_variables(SimpleGraph, Dedup(st.definitions.keys \o st.uses.keys), st)

\* --------------------------------------------------------- _analyze_data_flow
Min(s) == CHOOSE m \in Range(s) : \A x \in Range(s) : m <= x

VarIssue(ty, sev, v) == [type |-> ty, severity |-> sev, variable |-> v]

variable_issues(var, data) ==
    (IF data.definitions # <<>> /\ data.uses = <<>>
     THEN <<VarIssue("unused_variable", "info", var)>> ELSE <<>>) \o
    (IF data.uses # <<>> /\ data.definitions # <<>> /\ Min(data.uses) < Min(data.definitions)
     THEN <<VarIssue("use_before_definition", "error", var)>> ELSE <<>>)

_analyze_data_flow(g) ==
    [issues |-> Flatten([i \in 1..Len(g.keys) |-> variable_issues(g.keys[i], g.attrs[i])]),
     total_variables |-> number_of_nodes(g),
     data_dependencies |-> number_of_edges(g)]

\* ------------------------------------------------------------ input trees
MaxDataNodes == 7

NameIn(f, c) == {[kind |-> "Name", field |-> f, id |-> v, ctx |-> c] : v \in {"x", "y"}}

\* assignments and expression statements over names, constants and
\* assignment expressions (`(x := 1)`)
DataFamily ==
    [kids |-> [k \in {"Module", "Assign", "Expr", "NamedExpr"} |->
        CASE k = "Module" -> {Tmpl("Assign", "body"), Tmpl("Expr", "body")}
          [] k = "Assign" -> NameIn("targets", "Store") \cup NameIn("value", "Load") \cup
                             {Tmpl("Constant", "value"), Tmpl("NamedExpr", "value")}
          [] k = "Expr" -> NameIn("value", "Load") \cup {Tmpl("NamedExpr", "value")}
          [] k = "NamedExpr" -> NameIn("target", "Store") \cup {Tmpl("Constant", "value")}],
     required |-> [k \in {"Assign", "Expr", "NamedExpr"} |->
        CASE k = "Assign" -> {"targets", "value"}
          [] k = "Expr" -> {"value"}
          [] k = "NamedExpr" -> {"target", "value"}]]

\* ------------------------------------------------------------------------
\* Data-flow run: a parsed tree, build_data_flow_graph, then _analyze_data_flow
InitDFG ==
    /\ pc = "parsed"
    /\ tree \in TreesUpTo(MaxDataNodes, DataFamily)
    /\ cfg = SimpleGraph
    /\ node_counter = 0
    /\ dfg = SimpleGraph
    /\ call_graph = SimpleGraph
    /\ result = NoResult
    /\ file = Idle
    /\ detector = Idle
    /\ scanner = Idle

BuildDataFlowGraph ==
    /\ pc = "parsed"
    /\ dfg' = build_data_flow_graph(tree, dfg)
    /\ pc' = "built"
    /\ UNCHANGED <<tree, cfg, node_counter, call_graph, result, file, detector, scanner>>

AnalyzeDataFlow ==
    /\ pc = "built"
    /\ result' = [status |-> "ok", data_flow_analysis |-> _analyze_data_flow(dfg)]
    /\ pc' = "analyzed"
    /\ UNCHANGED <<tree, cfg, node_counter, dfg, call_graph, file, detector, scanner>>

NextDFG == BuildDataFlowGraph \/ AnalyzeDataFlow

SpecDFG == InitDFG /\ [][NextDFG]_vars

\* ------------------------------------------------------- data-flow claims
NamesOf(t, v) == {n \in 1..Len(t) : t[n].kind = "Name" /\ t[n].id = v}

\* the plain assignments that have the name v among their targets
AssignmentsTo(t, v) ==
    {n \in NamesOf(t, v) : t[n].field = "targets" /\ t[t[n].parent].kind = "Assign"}

IsRead(t, v) == \E n \in NamesOf(t, v) : t[n].ctx = "Load"

UnusedIssues(v) ==
    SelectSeq(result.data_flow_analysis.issues,
              LAMBDA i : i.type = "unused_variable" /\ i.variable = v)

\* C4: a variable assigned by exactly one plain assignment and never read
\* gets exactly one unused_variable info issue; a variable that is assigned
\* and read gets none
C4_UnusedVariable ==
    pc = "analyzed" =>
        \A v \in {"x", "y"} :
            /\ (Cardinality(AssignmentsTo(tree, v)) = 1 /\ ~IsRead(tree, v)) =>
                  UnusedIssues(v) = <<VarIssue("unused_variable", "info", v)>>
            /\ (AssignmentsTo(tree, v) # {} /\ IsRead(tree, v)) => UnusedIssues(v) = <<>>

\* --------------------------------------------------------- build_call_graph
\* functions[node.name] = node, for the FunctionDef nodes in walk order
RECURSIVE index_functions(_, _, _)
index_functions(t, ns, fs) ==
    IF ns = <<>> THEN fs
    ELSE index_functions(t, Tail(ns),
            IF Head(ns) # 0 /\ t[Head(ns)].kind = "FunctionDef"
            THEN IF t[Head(ns)].id \in Range(fs.keys)
                 THEN [fs EXCEPT !.vals[IndexOf(fs.keys, t[Head(ns)].id)] = Head(ns)]
                 ELSE [keys |-> Append(fs.keys, t[Head(ns)].id),
                       vals |-> Append(fs.vals, Head(ns))]
            ELSE fs)

\* the name a Call node calls when node.func is a Name, else ""
called_name(t, n) ==
    LET fn == FieldOf(t, n, "func")
    IN  IF t[n].kind = "Call" /\ fn # <<>> /\ t[fn[1]].kind = "Name"
        THEN t[fn[1]].id ELSE ""

RECURSIVE add_calls(_, _, _, _, _)
add_calls(t, ns, func_name, fs, g) ==
    IF ns = <<>> THEN g
    ELSE add_calls(t, Tail(ns), func_name, fs,
            IF called_name(t, Head(ns)) # "" /\ called_name(t, Head(ns)) \in Range(fs.keys)
            THEN add_edge(g, func_name, called_name(t, Head(ns))) ELSE g)

RECURSIVE add_function_calls(_, _, _, _)
add_function_calls(t, i, fs, g) ==
    IF i > Len(fs.keys) THEN g
    ELSE add_function_calls(t, i + 1, fs,
                            add_calls(t, walk(t, fs.vals[i]), fs.keys[i], fs, g))

RECURSIVE add_names(_, _)
add_names(g, ks) == IF ks = <<>> THEN g ELSE add_names(add_node(g, Head(ks), <<>>), Tail(ks))

build_call_graph(t, old) ==
    LET fs == index_functions(t, walk(t, 0), EmptyDict)
    IN  add_function_calls(t, 1, fs, add_names(SimpleGraph, fs.keys))

\* ------------------------------------------------------------------ numbers
\* a float with two decimals is held as its number of hundredths;
\* Round2(num, den) is round(num / den, 2), ties to the even neighbour
Round2(num, den) ==
    LET q == (100 * num) \div den
        r == (100 * num) % den
    IN  IF 2 * r > den THEN q + 1
        ELSE IF 2 * r = den THEN q + (q % 2)
        ELSE q

Hundredths(n) == 100 * n

MaxOf(a, b) == IF a >= b THEN a ELSE b

MinOf(a, b) == IF a <= b THEN a ELSE b

RECURSIVE Sum(_)
Sum(s) == IF s = <<>> THEN 0 ELSE Head(s) + Sum(Tail(s))

\* --------------------------------------------------------- _analyze_structure
CountKind(t, ks) == Cardinality({n \in 1..Len(t) : t[n].kind \in ks})

_analyze_structure(t) ==
    LET functions == CountKind(t, {"FunctionDef"})
        classes == CountKind(t, {"ClassDef"})
        loops == CountKind(t, {"For"}) + CountKind(t, {"While"})
        conditions == CountKind(t, {"If"})
        kinds == {t[n].kind : n \in 1..Len(t)}
    IN  [functions |-> functions,
         classes |-> classes,
         loops |-> loops,
         conditions |-> conditions,
         structural_complexity_index |->
             Round2(10 * functions + 20 * classes + 15 * loops + 12 * conditions,
                    10 * MaxOf(functions + classes + loops + conditions, 1)),
         node_type_distribution |->
             [k \in kinds \cup {"Module"} |->
                 IF k = "Module" THEN 1 ELSE CountKind(t, {k})]]

\* ------------------------------------------------------- _analyze_dependencies
CouplingThreshold == 5

_find_call_cycles(g) == find_cycles_in(g)

_analyze_dependencies(g) ==
    LET cycles == _find_call_cycles(g)
        degrees == [i \in 1..Len(g.keys) |-> in_degree(g, g.keys[i]) + out_degree(g, g.keys[i])]
        n == Len(g.keys)
    IN  [issues |->
             (IF cycles # <<>>
              THEN <<Issue("circular_dependency", "warning", Len(cycles))>> ELSE <<>>) \o
             (IF n > 0 /\ Sum(degrees) > CouplingThreshold * n
              THEN <<Issue("high_coupling", "warning", 0)>> ELSE <<>>),
         total_functions |-> number_of_nodes(g),
         function_calls |-> number_of_edges(g),
         circular_dependencies |-> Len(cycles),
         average_coupling |-> IF n > 0 THEN Round2(Sum(degrees), n) ELSE 0]

\* ------------------------------------------------ _calculate_advanced_complexity
\* the weighted numbers of edges, without the division by the nodes
_calculate_advanced_complexity_sum(c, d) ==
    [graph_complexity |-> Hundredths(number_of_edges(c)),
     information_flow_complexity |-> Hundredths(number_of_edges(d)),
     combined_complexity_score |-> Hundredths(4 * number_of_edges(c) + 3 * number_of_edges(d))]

\* combined = edges/nodes * 0.4 + edges/nodes * 0.3 over cfg and dfg
_calculate_advanced_complexity(c, d) ==
    LET cn == number_of_nodes(c)
        ce == IF cn > 0 THEN number_of_edges(c) ELSE 0
        dn == number_of_nodes(d)
        de == IF dn > 0 THEN number_of_edges(d) ELSE 0
        cden == MaxOf(cn, 1)
        dden == MaxOf(dn, 1)
    IN  [graph_complexity |-> Round2(ce, cden),
         information_flow_complexity |-> Round2(de, dden),
         combined_complexity_score |-> Round2(4 * ce * dden + 3 * de * cden, 10 * cden * dden)]

\* ------------------------------------------------------ _calculate_quality_score
ErrorPenalty == 10

WarningPenalty == 5

InfoPenalty == 2

ComplexityLimit == 5

\* the penalties with those of a warning and of an info issue exchanged
Penalty_exchanged(issue) ==
    IF issue.severity = "error" THEN ErrorPenalty
    ELSE IF issue.severity = "warning" THEN InfoPenalty
    ELSE IF issue.severity = "info" THEN WarningPenalty
    ELSE 0

Penalty(issue) ==
    IF issue.severity = "error" THEN ErrorPenalty
    ELSE IF issue.severity = "warning" THEN WarningPenalty
    ELSE IF issue.severity = "info" THEN InfoPenalty
    ELSE 0

IssuePenalties(issues) == Sum([i \in 1..Len(issues) |-> Penalty(issues[i])])

\* the score in hundredths
_calculate_quality_score(results) ==
    LET s1 == Hundredths(100)
              - Hundredths(IssuePenalties(results.control_flow_analysis.issues))
              - Hundredths(IssuePenalties(results.data_flow_analysis.issues))
              - Hundredths(IssuePenalties(results.dependency_analysis.issues))
        combined == results.complexity_metrics.combined_complexity_score
        s2 == IF combined > Hundredths(ComplexityLimit)
              THEN s1 - (combined - Hundredths(ComplexityLimit)) * 5 ELSE s1
    IN  MaxOf(0, MinOf(Hundredths(100), s2))

CouplingLimit == 3

\* _calculate_quality_score of the networkx engine: the same, and a
\* penalty for an average coupling above 3
_calculate_quality_score_nx(results) ==
    LET s1 == Hundredths(100)
              - Hundredths(IssuePenalties(results.control_flow_analysis.issues))
              - Hundredths(IssuePenalties(results.data_flow_analysis.issues))
              - Hundredths(IssuePenalties(results.dependency_analysis.issues))
        combined == results.complexity_metrics.combined_complexity_score
        s2 == IF combined > Hundredths(ComplexityLimit)
              THEN s1 - (combined - Hundredths(ComplexityLimit)) * 5 ELSE s1
        coupling == results.dependency_analysis.average_coupling
        s3 == IF coupling > Hundredths(CouplingLimit)
              THEN s2 - (coupling - Hundredths(CouplingLimit)) * 3 ELSE s2
    IN  MaxOf(0, MinOf(Hundredths(100), s3))

\* ------------------------------------------------------------ analyze_file
\* a file: whether open() and the utf-8 decoding succeed, what ast.parse
\* does with the text ("ok", "SyntaxError", or "RecursionError" for a source
\* nested deeper than the parser allows), and the tree when it parses
SourceFile(r, p, t) == [readable |-> r, parse |-> p, tree |-> t]

ErrorResult == [status |-> "error"]

\* the three builds of analyze_file, on the engine e = [cfg, node_counter,
\* dfg, call_graph]
build_graphs(t, e) ==
    LET st == build_control_flow_graph(t, [g |-> e.cfg, counter |-> e.node_counter])
    IN  [cfg |-> st.g,
         node_counter |-> st.counter,
         dfg |-> build_data_flow_graph(t, e.dfg),
         call_graph |-> build_call_graph(t, e.call_graph)]

analysis_results(t, e) ==
    LET results ==
            [status |-> "ok",
             control_flow_analysis |-> _analyze_control_flow(e.cfg),
             data_flow_analysis |-> _analyze_data_flow(e.dfg),
             structural_analysis |-> _analyze_structure(t),
             dependency_analysis |-> _analyze_dependencies(e.call_graph),
             complexity_metrics |-> _calculate_advanced_complexity(e.cfg, e.dfg),
             code_quality_score |-> 0]
    IN  [results EXCEPT !.code_quality_score = _calculate_quality_score(results)]

\* what analyze_file returns once the graphs are built
analyzed(t, e1) ==
    [engine |-> e1, outcome |-> "returned", result |-> analysis_results(t, e1)]

\* analyze_file of the standalone engine: [engine, outcome, result];
\* only a failing read and a SyntaxError are caught
analyze_file(f, e) ==
    IF ~f.readable \/ f.parse = "SyntaxError"
    THEN [engine |-> e, outcome |-> "returned", result |-> ErrorResult]
    ELSE IF f.parse # "ok"
    THEN [engine |-> e, outcome |-> "raised", result |-> NoResult]
    ELSE analyzed(f.tree, build_graphs(f.tree, e))

\* DeepAnalysisEngine.__init__
NewEngine == [cfg |-> SimpleGraph, node_counter |-> 0, dfg |-> SimpleGraph,
              call_graph |-> SimpleGraph]

\* ------------------------------------------------------------ input files
MaxFileNodes == 4

MaxAnalyses == 2

\* small sources that give every graph something to hold: a loop, an
\* assignment, a function and a call
EngineFamily ==
    [kids |-> [k \in {"Module", "While", "FunctionDef", "Assign", "Expr", "Call"} |->
        CASE k = "Module" -> {Tmpl("While", "body"), Tmpl("Assign", "body"),
                              Tmpl("Expr", "body"),
                              [kind |-> "FunctionDef", field |-> "body", id |-> "f", ctx |-> ""]}
          [] k = "While" -> {Tmpl("Pass", "body")}
          [] k = "FunctionDef" -> {Tmpl("Pass", "body"), Tmpl("Expr", "body")}
          [] k = "Assign" -> {[kind |-> "Name", field |-> "targets", id |-> "x", ctx |-> "Store"],
                              Tmpl("Constant", "value")}
          [] k = "Expr" -> {Tmpl("Call", "value")}
          [] k = "Call" -> {[kind |-> "Name", field |-> "func", id |-> "f", ctx |-> "Load"]}],
     required |-> [k \in {"Assign", "Expr", "Call", "FunctionDef"} |->
        CASE k = "Assign" -> {"targets", "value"}
          [] k = "Expr" -> {"value"}
          [] k = "Call" -> {"func"}
          [] k = "FunctionDef" -> {"body"}]]

EngineFiles ==
    {SourceFile(FALSE, "ok", <<>>), SourceFile(TRUE, "SyntaxError", <<>>),
     SourceFile(TRUE, "RecursionError", <<>>)} \cup
    {SourceFile(TRUE, "ok", t) : t \in TreesUpTo(MaxFileNodes, EngineFamily)}

\* ------------------------------------------------------------------------
\* One engine, any sequence of analyze_file calls
InitEngine ==
    /\ pc = "idle"
    /\ tree = <<>>
    /\ cfg = NewEngine.cfg
    /\ node_counter = NewEngine.node_counter
    /\ dfg = NewEngine.dfg
    /\ call_graph = NewEngine.call_graph
    /\ result = NoResult
    /\ file = <<>>
    /\ detector = Idle
    /\ scanner = Idle

Engine == [cfg |-> cfg, node_counter |-> node_counter, dfg |-> dfg,
           call_graph |-> call_graph]

\* `file` keeps the files analysed so far, the last one last
AnalyzeFile(f) ==
    /\ Len(file) < MaxAnalyses
    /\ \E r \in {analyze_file(f, Engine)} :
        /\ cfg' = r.engine.cfg
        /\ node_counter' = r.engine.node_counter
        /\ dfg' = r.engine.dfg
        /\ call_graph' = r.engine.call_graph
        /\ result' = r.result
        /\ pc' = r.outcome
        /\ file' = Append(file, f)
        /\ UNCHANGED <<tree, detector, scanner>>

NextEngine == \E f \in EngineFiles : AnalyzeFile(f)

SpecEngine == InitEngine /\ [][NextEngine]_vars

\* C5: whatever was analysed before, analyze_file gives for a file what a
\* new engine gives for it (the same result, or the same exception)
C5_NoCarryOver ==
    pc # "idle" =>
        \E fresh \in {analyze_file(file[Len(file)], NewEngine)} :
            result = fresh.result /\ pc = fresh.outcome

\* a second file was analysed on the engine that held the graphs of a
\* first one, a different source with a loop, a variable or a function
C5_Witness ==
    /\ Len(file) = 2
    /\ pc = "returned"
    /\ result.status = "ok"
    /\ file[1].parse = "ok"
    /\ file[1].readable
    /\ file[1].tree # <<>>
    /\ file[2].tree # file[1].tree
    /\ number_of_nodes(build_graphs(file[1].tree, NewEngine).cfg) > number_of_nodes(cfg)

\* ============================================================ CloneDetector
\* a line of text is a sequence of characters (without its newline)
RECURSIVE lstrip(_)
lstrip(l) == IF l # <<>> /\ Head(l) = " " THEN lstrip(Tail(l)) ELSE l

RECURSIVE rstrip(_)
rstrip(l) ==
    IF l # <<>> /\ l[Len(l)] = " " THEN rstrip(SubSeq(l, 1, Len(l) - 1)) ELSE l

strip(l) == rstrip(lstrip(l))

startswith(l, c) == l # <<>> /\ Head(l) = c

\* the stripped lines that are neither blank nor comments
normalize(lines) ==
    LET stripped == [i \in 1..Len(lines) |-> strip(lines[i])]
    IN  SelectSeq(stripped, LAMBDA x : x # <<>> /\ ~startswith(x, "#"))

\* md5 of ''.join(lines), taken to be as good as the joined text itself
_hash_code_block(lines) == Flatten(lines)

\* a number with a fraction, as numerator and denominator in lowest terms
RECURSIVE GCD(_, _)
GCD(a, b) == IF b = 0 THEN a ELSE GCD(b, a % b)

Rat(n, d) == [num |-> n \div GCD(n, d), den |-> d \div GCD(n, d)]

Times100(r) == Rat(100 * r.num, r.den)

CodeClone(ty, f1, f2, l1, l2, sim, sz, sev) ==
    [type |-> ty, file1 |-> f1, file2 |-> f2, lines1 |-> l1, lines2 |-> l2,
     similarity |-> sim, size |-> sz, severity |-> sev]

\* window_hashes: the hash of every window, keyed in order of first
\* appearance, with the 0-based start positions
RECURSIVE window_hashes(_, _, _, _)
window_hashes(normalized, min_lines, i, d) ==
    IF i > Len(normalized) - min_lines THEN d
    ELSE window_hashes(normalized, min_lines, i + 1,
            dict_append(d, _hash_code_block(SubSeq(normalized, i + 1, i + min_lines)), i))

\* the records of all pairs j < k of one list of positions
pair_clones(positions, min_lines, file_path) ==
    LET pairs == SelectSeq(
                    Flatten([j \in 1..Len(positions) |->
                                [k \in 1..Len(positions) |-> <<j, k>>]]),
                    LAMBDA jk : jk[1] < jk[2])
    IN  [n \in 1..Len(pairs) |->
            CodeClone("Type 1", file_path, file_path,
                      <<positions[pairs[n][1]] + 1, positions[pairs[n][1]] + min_lines>>,
                      <<positions[pairs[n][2]] + 1, positions[pairs[n][2]] + min_lines>>,
                      Rat(100, 1), min_lines, "HIGH")]

\* the records _detect_type1_clones appends to self.clones
_detect_type1_clones(lines, file_path, min_lines) ==
    LET d == window_hashes(normalize(lines), min_lines, 0, EmptyDict)
    IN  Flatten([h \in 1..Len(d.keys) |->
                    IF Len(d.vals[h]) > 1
                    THEN pair_clones(d.vals[h], min_lines, file_path) ELSE <<>>])

\* ------------------------------------------------- difflib.SequenceMatcher
\* (no junk; sequences shorter than the 200 elements at which the
\* popularity heuristic starts)
RECURSIVE CommonLen(_, _, _, _, _, _)
\* length of the longest common run of a from i and b from j (0-based),
\* inside a[..ahi) and b[..bhi)
CommonLen(a, b, i, j, ahi, bhi) ==
    IF i < ahi /\ j < bhi /\ a[i + 1] = b[j + 1]
    THEN 1 + CommonLen(a, b, i + 1, j + 1, ahi, bhi) ELSE 0

\* the length of the common run from every pair of positions
run_lengths(a, b, alo, ahi, blo, bhi) ==
    [i \in alo..(ahi - 1) |-> [j \in blo..(bhi - 1) |-> CommonLen(a, b, i, j, ahi, bhi)]]

\* the greatest of the lengths, 0 when there is no position
longest_run(len, alo, ahi, blo, bhi) ==
    LET ks == {len[i][j] : i \in alo..(ahi - 1), j \in blo..(bhi - 1)}
    IN  IF ks = {} THEN 0 ELSE CHOOSE x \in ks : \A o \in ks : o <= x

\* of the runs of length k the one starting earliest in a, then earliest in b
earliest_run(len, k, alo, ahi, blo, bhi) ==
    IF k = 0 THEN [i |-> alo, j |-> blo, k |-> 0]
    ELSE LET i == CHOOSE x \in alo..(ahi - 1) :
                      /\ \E j \in blo..(bhi - 1) : len[x][j] = k
                      /\ \A o \in alo..(x - 1) : \A j \in blo..(bhi - 1) : len[o][j] < k
         IN  [i |-> i,
              j |-> CHOOSE x \in blo..(bhi - 1) :
                       len[i][x] = k /\ \A o \in blo..(x - 1) : len[i][o] < k,
              k |-> k]

longest_of(len, alo, ahi, blo, bhi) ==
    earliest_run(len, longest_run(len, alo, ahi, blo, bhi), alo, ahi, blo, bhi)

\* the longest matching block of a[alo:ahi] and b[blo:bhi]; of the longest
\* ones the one starting earliest in a, then earliest in b
find_longest_match(a, b, alo, ahi, blo, bhi) ==
    longest_of(run_lengths(a, b, alo, ahi, blo, bhi), alo, ahi, blo, bhi)

RECURSIVE matching_blocks_in(_, _, _, _, _, _)
RECURSIVE blocks_around(_, _, _, _, _, _, _)
\* the blocks found in a[alo:ahi], b[blo:bhi], in increasing order
matching_blocks_in(a, b, alo, ahi, blo, bhi) ==
    blocks_around(a, b, alo, ahi, blo, bhi, find_longest_match(a, b, alo, ahi, blo, bhi))

\* the blocks to the left of the longest match m, m itself, and the blocks
\* to its right
blocks_around(a, b, alo, ahi, blo, bhi, m) ==
    IF m.k = 0 THEN <<>>
    ELSE (IF alo < m.i /\ blo < m.j
          THEN matching_blocks_in(a, b, alo, m.i, blo, m.j) ELSE <<>>)
         \o <<m>> \o
         (IF m.i + m.k < ahi /\ m.j + m.k < bhi
          THEN matching_blocks_in(a, b, m.i + m.k, ahi, m.j + m.k, bhi) ELSE <<>>)

RECURSIVE merge_adjacent(_, _)
\* adjacent blocks are collapsed into one
merge_adjacent(blocks, acc) ==
    IF blocks = <<>> THEN acc
    ELSE LET m == Head(blocks)
             l == IF acc = <<>> THEN m ELSE acc[Len(acc)]
         IN  IF acc # <<>> /\ l.i + l.k = m.i /\ l.j + l.k = m.j
             THEN merge_adjacent(Tail(blocks),
                                 [acc EXCEPT ![Len(acc)] = [l EXCEPT !.k = l.k + m.k]])
             ELSE merge_adjacent(Tail(blocks), Append(acc, m))

\* get_matching_blocks(), with the closing block of size 0
get_matching_blocks(a, b) ==
    Append(merge_adjacent(matching_blocks_in(a, b, 0, Len(a), 0, Len(b)), <<>>),
           [i |-> Len(a), j |-> Len(b), k |-> 0])

\* ratio(): 2 * matches / (len(a) + len(b)), 1 for two empty sequences
ratio(a, b) ==
    LET blocks == get_matching_blocks(a, b)
        matches == Sum([n \in 1..Len(blocks) |-> blocks[n].k])
    IN  IF Len(a) + Len(b) = 0 THEN Rat(1, 1) ELSE Rat(2 * matches, Len(a) + Len(b))

\* _calculate_similarity: a value between 0 and 1
_calculate_similarity(block1, block2) == ratio(block1, block2)

SeverityLimit == 20

\* the records detect_clones_between_files appends to self.clones
between_clones(file1, lines1, file2, lines2, min_lines) ==
    LET blocks == SelectSeq(get_matching_blocks(lines1, lines2), LAMBDA m : m.k >= min_lines)
    IN  [n \in 1..Len(blocks) |->
            LET m == blocks[n]
            IN  CodeClone("Type 1", file1, file2,
                          <<m.i + 1, m.i + m.k>>, <<m.j + 1, m.j + m.k>>,
                          _calculate_similarity(SubSeq(lines1, m.i + 1, m.i + m.k),
                                                SubSeq(lines2, m.j + 1, m.j + m.k)),
                          m.k, IF m.k > SeverityLimit THEN "HIGH" ELSE "MEDIUM")]

\* ------------------------------------------------------ _get_ast_fingerprint
\* type(node).__name__, letter by letter
TypeName(k) ==
    CASE k = "FunctionDef" -> <<"F", "u", "n", "c", "t", "i", "o", "n", "D", "e", "f">>
      [] k = "Return" -> <<"R", "e", "t", "u", "r", "n">>
      [] k = "Pass" -> <<"P", "a", "s", "s">>
      [] k = "Name" -> <<"N", "a", "m", "e">>
      [] k = "Constant" -> <<"C", "o", "n", "s", "t", "a", "n", "t">>
      [] k = "While" -> <<"W", "h", "i", "l", "e">>
      [] k = "For" -> <<"F", "o", "r">>
      [] k = "If" -> <<"I", "f">>
      [] k = "BinOp" -> <<"B", "i", "n", "O", "p">>
      [] k = "Add" -> <<"A", "d", "d">>
      [] k = "Sub" -> <<"S", "u", "b">>
      [] k = "Expr" -> <<"E", "x", "p", "r">>
      [] k = "Assign" -> <<"A", "s", "s", "i", "g", "n">>
      [] k = "Call" -> <<"C", "a", "l", "l">>
      [] k = "Module" -> <<"M", "o", "d", "u", "l", "e">>
      [] k = "arguments" -> <<"a", "r", "g", "u", "m", "e", "n", "t", "s">>
      [] k = "Load" -> <<"L", "o", "a", "d">>
      [] k = "Store" -> <<"S", "t", "o", "r", "e">>

LoopToken == <<"L", "O", "O", "P">>

CondToken == <<"C", "O", "N", "D">>

\* what one node adds to the fingerprint, with the node's identifier or
\* literal added as well
node_tokens_named(t, n) ==
    TypeName(t[n].kind) \o (IF t[n].id # "" THEN <<t[n].id>> ELSE <<>>)

\* what one node adds to the fingerprint
node_tokens(t, n) ==
    TypeName(t[n].kind) \o
    (IF t[n].kind \in {"For", "While"} THEN LoopToken
     ELSE IF t[n].kind = "If" THEN CondToken
     ELSE IF t[n].kind = "BinOp" THEN TypeName(t[FieldOf(t, n, "op")[1]].kind)
     ELSE <<>>)

\* ''.join(fingerprint): one string, compared letter by letter
_get_ast_fingerprint(t, n) ==
    LET ns == walk(t, n) IN Flatten([i \in 1..Len(ns) |-> node_tokens(t, ns[i])])

\* the comparison of two fingerprints
compare_fingerprints(struct1, struct2) ==
    IF struct1 = <<>> \/ struct2 = <<>> THEN Rat(0, 1) ELSE ratio(struct1, struct2)

_compare_ast_structure(t, n1, n2) ==
    compare_fingerprints(_get_ast_fingerprint(t, n1), _get_ast_fingerprint(t, n2))

\* end_lineno: the line of the last node of the subtree
end_lineno(t, n) == Min([i \in 1..Len(walk(t, n)) |-> 0 - lineno(t, walk(t, n)[i])]) * (0 - 1)

\* similarity > 0.80
Above80(r) == 5 * r.num > 4 * r.den

\* the record of two functions that are similar
type2_clone(t, file_path, f1, f2) ==
    CodeClone("Type 2", file_path, file_path,
              <<lineno(t, f1), end_lineno(t, f1)>>,
              <<lineno(t, f2), end_lineno(t, f2)>>,
              Times100(_compare_ast_structure(t, f1, f2)),
              end_lineno(t, f1) - lineno(t, f1), "MEDIUM")

\* the pairs i < j of functions whose similarity is above 0.80
similar_pairs(t, functions) ==
    SelectSeq(SelectSeq(Flatten([i \in 1..Len(functions) |->
                                    [j \in 1..Len(functions) |-> <<i, j>>]]),
                        LAMBDA ij : ij[1] < ij[2]),
              LAMBDA ij :
                 Above80(_compare_ast_structure(t, functions[ij[1]], functions[ij[2]])))

type2_clones(t, file_path, functions, found) ==
    [n \in 1..Len(found) |->
        type2_clone(t, file_path, functions[found[n][1]], functions[found[n][2]])]

FunctionDefs(t) == SelectSeq(walk(t, 0), LAMBDA n : n # 0 /\ t[n].kind = "FunctionDef")

\* the records _detect_type2_clones appends to self.clones
_detect_type2_clones(t, file_path) ==
    type2_clones(t, file_path, FunctionDefs(t), similar_pairs(t, FunctionDefs(t)))

\* -------------------------------------------------------------- input text
\* ast.parse of a text made of names, one per line: an indented line is a
\* syntax error, a name is an expression statement
parse_lines(lines) ==
    LET code == SelectSeq(lines, LAMBDA l : strip(l) # <<>> /\ ~startswith(strip(l), "#"))
    IN  IF \E i \in 1..Len(code) : startswith(code[i], " ")
        THEN [parse |-> "SyntaxError", tree |-> <<>>]
        ELSE [parse |-> "ok",
              tree |-> Flatten([i \in 1..Len(code) |->
                          <<Node("Expr", 0, "body", "", ""),
                            Node("Name", 3 * i - 2, "value", strip(code[i]), "Load"),
                            Node("Load", 3 * i - 1, "ctx", "", "")>>])]

TextFile(path, r, lines) ==
    [path |-> path, readable |-> r, lines |-> lines] @@ parse_lines(lines)

\* detect_clones_in_file: [outcome, clones]; open() may raise, whatever the
\* parse or the structural comparison raises is swallowed
detect_clones_in_file(f, d) ==
    IF ~f.readable THEN [outcome |-> "raised", clones |-> d.clones]
    ELSE [outcome |-> "returned",
          clones |-> d.clones \o _detect_type1_clones(f.lines, f.path, d.min_lines) \o
                     (IF f.parse = "ok" THEN _detect_type2_clones(f.tree, f.path) ELSE <<>>)]

detect_clones_between_files(f1, f2, d) ==
    IF ~f1.readable \/ ~f2.readable THEN [outcome |-> "raised", clones |-> d.clones]
    ELSE [outcome |-> "returned",
          clones |-> d.clones \o
                     between_clones(f1.path, f1.lines, f2.path, f2.lines, d.min_lines)]

DefaultMinLines == 6

\* CloneDetector.__init__
NewDetector(min_lines) == [min_lines |-> min_lines, clones |-> <<>>]

MaxLines == 6

MaxPairLines == 4

MinLinesChoices == {2, 3}

\* a blank line, a comment, and lines of code with and without indentation
RawLines == {<<" ">>, <<"#", "a">>, <<"a">>, <<"b">>, <<" ", "b">>, <<"a", "b">>}

\* the lines of the files that are compared with each other
PairLines == {<<" ">>, <<"a">>, <<"b">>}

RECURSIVE TextsUpTo(_, _)
TextsUpTo(n, alphabet) ==
    IF n = 0 THEN {<<>>}
    ELSE LET shorter == TextsUpTo(n - 1, alphabet)
         IN  shorter \cup {Append(x, l) : x \in {y \in shorter : Len(y) = n - 1}, l \in alphabet}

\* ------------------------------------------------------------------------
\* A new CloneDetector and one detection call
InitClone ==
    /\ pc = "new"
    /\ detector \in {NewDetector(m) : m \in MinLinesChoices}
    /\ file = Idle
    /\ tree = <<>>
    /\ cfg = SimpleGraph
    /\ node_counter = 0
    /\ dfg = SimpleGraph
    /\ call_graph = SimpleGraph
    /\ result = NoResult
    /\ scanner = Idle

DetectClonesInFile(f) ==
    /\ pc = "new"
    /\ \E r \in {detect_clones_in_file(f, detector)} :
          /\ detector' = [detector EXCEPT !.clones = r.clones]
          /\ result' = IF r.outcome = "returned" THEN r.clones ELSE NoResult
          /\ pc' = IF r.outcome = "returned" THEN "in_file" ELSE "raised"
    /\ file' = <<f>>
    /\ UNCHANGED <<tree, cfg, node_counter, dfg, call_graph, scanner>>

DetectClonesBetweenFiles(f1, f2) ==
    /\ pc = "new"
    /\ \E r \in {detect_clones_between_files(f1, f2, detector)} :
          /\ detector' = [detector EXCEPT !.clones = r.clones]
          /\ result' = IF r.outcome = "returned" THEN r.clones ELSE NoResult
          /\ pc' = IF r.outcome = "returned" THEN "between" ELSE "raised"
    /\ file' = <<f1, f2>>
    /\ UNCHANGED <<tree, cfg, node_counter, dfg, call_graph, scanner>>

\* open() fails: the path does not exist or the bytes are not valid UTF-8
Unreadable(path) == TextFile(path, FALSE, <<>>)

NextClone ==
    /\ pc = "new"
    /\ \/ \E x \in TextsUpTo(MaxLines, RawLines) : DetectClonesInFile(TextFile("A", TRUE, x))
       \/ DetectClonesInFile(Unreadable("A"))
       \/ \E x, y \in TextsUpTo(MaxPairLines, PairLines) :
             DetectClonesBetweenFiles(TextFile("A", TRUE, x), TextFile("B", TRUE, y))
       \/ \E x \in TextsUpTo(MaxPairLines, PairLines) : DetectClonesBetweenFiles(TextFile("A", TRUE, x), Unreadable("B"))

SpecClone == InitClone /\ [][NextClone]_vars

\* ------------------------------------------------------------------------
MaxFuncNodes == 10

NamedIn(k, f, ids) == {[kind |-> k, field |-> f, id |-> v, ctx |-> ""] : v \in ids}

\* small functions: returns of a name, a literal or a sum, and loops
FuncFamily ==
    [kids |-> [k \in {"Module", "FunctionDef", "Return", "While", "BinOp", "Name"} |->
        CASE k = "Module" -> NamedIn("FunctionDef", "body", {"f", "g"})
          [] k = "FunctionDef" -> {Tmpl("arguments", "args"), Tmpl("Return", "body"),
                                   Tmpl("While", "body")}
          [] k = "Return" -> NamedIn("Name", "value", {"x", "y"}) \cup
                             NamedIn("Constant", "value", {"1", "2"}) \cup
                             {Tmpl("BinOp", "value")}
          [] k = "While" -> NamedIn("Constant", "test", {"1"}) \cup {Tmpl("Return", "body")}
          [] k = "BinOp" -> NamedIn("Constant", "left", {"1", "2"}) \cup
                            {Tmpl("Add", "op"), Tmpl("Sub", "op")} \cup
                            NamedIn("Constant", "right", {"1"})
          [] k = "Name" -> {Tmpl("Load", "ctx")}],
     required |-> [k \in {"FunctionDef", "Return", "While", "BinOp", "Name"} |->
        CASE k = "FunctionDef" -> {"args", "body"}
          [] k = "Return" -> {"value"}
          [] k = "While" -> {"test", "body"}
          [] k = "BinOp" -> {"left", "op", "right"}
          [] k = "Name" -> {"ctx"}]]

\* ------------------------------------------------------------------------
\* A new CloneDetector and _detect_type2_clones on a parsed tree
InitType2 ==
    /\ pc = "parsed"
    /\ tree \in TreesUpTo(MaxFuncNodes, FuncFamily)
    /\ detector = NewDetector(DefaultMinLines)
    /\ file = Idle
    /\ cfg = SimpleGraph
    /\ node_counter = 0
    /\ dfg = SimpleGraph
    /\ call_graph = SimpleGraph
    /\ result = NoResult
    /\ scanner = Idle

DetectType2Clones ==
    /\ pc = "parsed"
    /\ detector' = [detector EXCEPT !.clones = @ \o _detect_type2_clones(tree, "A")]
    /\ pc' = "type2"
    /\ UNCHANGED <<tree, file, cfg, node_counter, dfg, call_graph, result, scanner>>

NextType2 == DetectType2Clones

SpecType2 == InitType2 /\ [][NextType2]_vars

\* the functions of the tree, in the order ast.walk meets them
Functions == SelectSeq(walk(tree, 0), LAMBDA n : n # 0 /\ tree[n].kind = "FunctionDef")

\* the subtree of n without its identifiers and literal values
Shape(t, n) ==
    LET ns == walk(t, n)
    IN  [i \in 1..Len(ns) |->
            [kind |-> t[ns[i]].kind, field |-> t[ns[i]].field,
             parent |-> IF i = 1 THEN 0 ELSE IndexOf(ns, t[ns[i]].parent)]]

\* the identifiers and literal values of the subtree of n
Identifiers(t, n) ==
    LET ns == SelectSeq(walk(t, n), LAMBDA i : t[i].id # "")
    IN  [i \in 1..Len(ns) |-> t[ns[i]].id]

Type2Records(f1, f2) ==
    {c \in 1..Len(detector.clones) :
        /\ detector.clones[c].type = "Type 2"
        /\ detector.clones[c].lines1 = <<lineno(tree, f1), end_lineno(tree, f1)>>
        /\ detector.clones[c].lines2 = <<lineno(tree, f2), end_lineno(tree, f2)>>}

\* C10: two functions of the same shape, whatever their identifiers and
\* literals, have the same fingerprint and a structural similarity of 1,
\* and are reported as one Type 2 clone of similarity 100
C10_RenamingInvariant ==
    pc = "type2" =>
        \A i, j \in 1..Len(Functions) :
            (i < j /\ Shape(tree, Functions[i]) = Shape(tree, Functions[j])) =>
                /\ _get_ast_fingerprint(tree, Functions[i]) =
                   _get_ast_fingerprint(tree, Functions[j])
                /\ _compare_ast_structure(tree, Functions[i], Functions[j]) = Rat(1, 1)
                /\ Cardinality(Type2Records(Functions[i], Functions[j])) = 1
                /\ \A c \in Type2Records(Functions[i], Functions[j]) :
                      detector.clones[c].similarity = Rat(100, 1)

\* two functions of one shape in which every identifier and literal differs,
\* reported as a clone
C10_Witness ==
    /\ pc = "type2"
    /\ \E i, j \in 1..Len(Functions) :
          /\ i < j
          /\ Shape(tree, Functions[i]) = Shape(tree, Functions[j])
          /\ Len(Identifiers(tree, Functions[i])) >= 2
          /\ \A n \in 1..Len(Identifiers(tree, Functions[i])) :
                Identifiers(tree, Functions[i])[n] # Identifiers(tree, Functions[j])[n]
          /\ Type2Records(Functions[i], Functions[j]) # {}

\* ------------------------------------------------------------------------
\* Exact clones inside one file
Normalized == normalize(file[1].lines)

\* the block of L normalized lines at p occurs again at q; its lines are
\* all distinct and no line of the text is repeated in any other way
RepeatedBlock(n, p, q, L) ==
    /\ p + L <= q
    /\ q + L - 1 <= Len(n)
    /\ \A k \in 0..(L - 1) : n[p + k] = n[q + k]
    /\ \A i, j \in 1..Len(n) :
          (i < j /\ n[i] = n[j]) => (i \in p..(p + L - 1) /\ j = i + (q - p))

InFileDone == pc = "in_file" /\ file[1].readable

\* C8: a block of L >= min_lines distinct normalized lines that
\* occurs exactly twice, nothing else being repeated, is reported as exactly
\* one record, of similarity 100
C8_ExactlyOne ==
    InFileDone =>
        \A p, q, L \in 1..Len(Normalized) :
            (L >= detector.min_lines /\ RepeatedBlock(Normalized, p, q, L)) =>
                /\ Len(result) = 1
                /\ result[1].similarity = Rat(100, 1)

\* ------------------------------------------------------------------------
\* Clones between two files
BetweenDone == pc = "between"

\* the length of the longest run of lines the two texts share
LongestCommon(a, b) ==
    LET ks == {CommonLen(a, b, i, j, Len(a), Len(b)) :
                  i \in 0..(Len(a) - 1), j \in 0..(Len(b) - 1)}
    IN  IF ks = {} THEN 0 ELSE CHOOSE k \in ks : \A o \in ks : o <= k

SwapLocations(c) ==
    [c EXCEPT !.file1 = c.file2, !.file2 = c.file1,
              !.lines1 = c.lines2, !.lines2 = c.lines1]

\* C9: two files sharing a block of L >= min_lines lines give a record of
\* similarity 100 and size L, and the files passed in the opposite order
\* give the same records with the two locations swapped
C9_CrossFile ==
    BetweenDone =>
        LET a == file[1].lines
            b == file[2].lines
            L == LongestCommon(a, b)
            back == between_clones(file[2].path, b, file[1].path, a, detector.min_lines)
        IN  (a # <<>> /\ b # <<>> /\ L >= detector.min_lines) =>
                /\ \E c \in 1..Len(result) :
                      result[c].similarity = Rat(100, 1) /\ result[c].size = L
                /\ {back[c] : c \in 1..Len(back)} =
                   {SwapLocations(result[c]) : c \in 1..Len(result)}

\* ------------------------------------------------------------------------
\* ComprehensiveScanner and the detectors it runs on a file
\* round(num / den, 1), in tenths
Round1(num, den) ==
    LET q == (10 * num) \div den
        r == (10 * num) % den
    IN  IF 2 * r > den THEN q + 1
        ELSE IF 2 * r = den THEN q + (q % 2)
        ELSE q

\* what the smell, security and performance detectors find in a file that
\* parses: the severities of the smells and of the security issues, and the
\* number of performance issues
Findings(sm, se, pf) == [smells |-> sm, security |-> se, performance |-> pf]

NoFindings == Findings(<<>>, <<>>, 0)

SomeFindings == Findings(<<"MEDIUM">>, <<"HIGH">>, 1)

ScannedFile(f, fd) == f @@ [findings |-> fd]

\* a source nested deeper than the parser allows
DeepFile(path) ==
    [path |-> path, readable |-> TRUE, lines |-> <<<<"a", "b">>>>,
     parse |-> "RecursionError", tree |-> <<>>]

CountOf(seq, x) == Cardinality({i \in 1..Len(seq) : seq[i] = x})

\* IntelligentSmellDetector.detect_smells: [outcome, smells]
detect_smells(f) ==
    IF ~f.readable THEN [outcome |-> "raised", smells |-> <<>>]
    ELSE IF f.parse # "ok" THEN [outcome |-> "returned", smells |-> <<>>]
    ELSE [outcome |-> "returned", smells |-> f.findings.smells]

get_smell_report(smells) ==
    [total_smells |-> Len(smells),
     code_health_score |->
        MaxOf(0, 100 - 15 * CountOf(smells, "CRITICAL") - 10 * CountOf(smells, "HIGH")
                     - 5 * CountOf(smells, "MEDIUM") - 2 * CountOf(smells, "LOW"))]

\* AdvancedSecurityScanner.scan_file: [outcome, issues]; of the failures
\* of the parser only a SyntaxError is caught
AdvancedSecurityScanner_scan_file(f) ==
    IF ~f.readable \/ f.parse = "SyntaxError" THEN [outcome |-> "returned", issues |-> <<>>]
    ELSE IF f.parse # "ok" THEN [outcome |-> "raised", issues |-> <<>>]
    ELSE [outcome |-> "returned", issues |-> f.findings.security]

AdvancedSecurityScanner_get_report(issues) ==
    [total_issues |-> Len(issues),
     security_score |->
        MaxOf(0, 100 - 25 * CountOf(issues, "CRITICAL") - 15 * CountOf(issues, "HIGH")
                     - 8 * CountOf(issues, "MEDIUM") - 3 * CountOf(issues, "LOW"))]

\* PerformanceAnalyzer.analyze_file: the number of issues; every failure
\* is caught and leaves the list empty
PerformanceAnalyzer_analyze_file(f) ==
    IF ~f.readable \/ f.parse # "ok" THEN 0 ELSE f.findings.performance

get_clone_report(clones) ==
    [total_clones |-> Len(clones),
     total_duplicated_lines |-> Sum([i \in 1..Len(clones) |-> clones[i].size]),
     clones |-> clones]

\* a key that self.results does not have
Absent == [status |-> "absent"]

\* ComprehensiveScanner.__init__: self.results = {}
NewScanner ==
    [results |-> [deep_analysis |-> Absent, clone_detection |-> Absent,
                  code_smells |-> Absent, security |-> Absent,
                  performance |-> Absent, overall_score |-> Absent]]

\* the weights of _calculate_overall_score, in hundredths
SecurityWeight == 35

SmellWeight == 25

DeepWeight == 20

CloneWeight == 10

PerformanceWeight == 10

\* the score in tenths: the weighted mean of the scores of the keys that
\* self.results has, each score in hundredths
_calculate_overall_score(results) ==
    LET scores ==
            <<[w |-> SecurityWeight, has |-> results.security # Absent,
               s |-> IF results.security # Absent
                     THEN Hundredths(results.security.security_score) ELSE 0],
              [w |-> SmellWeight, has |-> results.code_smells # Absent,
               s |-> IF results.code_smells # Absent
                     THEN Hundredths(results.code_smells.code_health_score) ELSE 0],
              [w |-> DeepWeight, has |-> results.deep_analysis # Absent,
               s |-> IF results.deep_analysis # Absent /\ results.deep_analysis.status = "ok"
                     THEN results.deep_analysis.code_quality_score ELSE 0],
              [w |-> CloneWeight, has |-> results.clone_detection # Absent,
               s |-> IF results.clone_detection # Absent
                     THEN Hundredths(MaxOf(0, 100 - results.clone_detection.total_clones * 5))
                     ELSE 0],
              [w |-> PerformanceWeight, has |-> results.performance # Absent,
               s |-> IF results.performance # Absent
                     THEN Hundredths(MaxOf(0, 100 - results.performance.total_issues * 10))
                     ELSE 0]>>
        total_score == Sum([i \in 1..5 |-> IF scores[i].has THEN scores[i].s * scores[i].w ELSE 0])
        total_weight == Sum([i \in 1..5 |-> IF scores[i].has THEN scores[i].w ELSE 0])
    IN  IF total_weight > 0 THEN Round1(total_score, 100 * total_weight) ELSE 0

with_overall_score(r5) == [r5 EXCEPT !.overall_score = _calculate_overall_score(r5)]

\* the last steps of scan_file: the performance analysis, which does not
\* raise, and the overall score
scan_performance(f, r4) ==
    [outcome |-> "returned",
     results |-> with_overall_score(
                    [r4 EXCEPT !.performance =
                                  [total_issues |-> PerformanceAnalyzer_analyze_file(f)]])]

scan_security(f, r3, security) ==
    IF security.outcome = "raised" THEN [outcome |-> "raised", results |-> r3]
    ELSE scan_performance(
            f, [r3 EXCEPT !.security = AdvancedSecurityScanner_get_report(security.issues)])

scan_smells(f, r2, smells) ==
    IF smells.outcome = "raised" THEN [outcome |-> "raised", results |-> r2]
    ELSE scan_security(f, [r2 EXCEPT !.code_smells = get_smell_report(smells.smells)],
                       AdvancedSecurityScanner_scan_file(f))

scan_clones(f, r1, clone) ==
    IF clone.outcome = "raised" THEN [outcome |-> "raised", results |-> r1]
    ELSE scan_smells(f, [r1 EXCEPT !.clone_detection = get_clone_report(clone.clones)],
                     detect_smells(f))

scan_deep(f, results, deep) ==
    IF deep.outcome = "raised" THEN [outcome |-> "raised", results |-> results]
    ELSE scan_clones(f, [results EXCEPT !.deep_analysis = deep.result],
                     detect_clones_in_file(f, NewDetector(DefaultMinLines)))

\* scan_file on a scanner whose self.results is `results`:
\* [outcome, results]; a detector that raises ends the call, with the keys
\* written so far left in self.results
scan_file(f, results) == scan_deep(f, results, analyze_file(f, NewEngine))

_calculate_project_score(all_results) ==
    IF all_results = <<>> THEN 0
    ELSE Round1(Sum([i \in 1..Len(all_results) |-> all_results[i].result.overall_score]),
                10 * Len(all_results))

\* the state of the loop after the scan r of the file at path: a file
\* whose scan raises is passed over; st = [results, all_results, total_issues]
after_scan(st, path, r) ==
    IF r.outcome = "raised" THEN [st EXCEPT !.results = r.results]
    ELSE [results |-> r.results,
          all_results |-> Append(st.all_results, [path |-> path, result |-> r.results]),
          total_issues |->
             [security |-> st.total_issues.security + r.results.security.total_issues,
              smells |-> st.total_issues.smells + r.results.code_smells.total_smells,
              clones |-> st.total_issues.clones + r.results.clone_detection.total_clones,
              performance |-> st.total_issues.performance
                              + r.results.performance.total_issues]]

RECURSIVE scan_python_files(_, _, _)
\* the loop of scan_directory over the Python files
scan_python_files(python_files, i, st) ==
    IF i > Len(python_files) THEN st
    ELSE scan_python_files(python_files, i + 1,
            after_scan(st, python_files[i].path, scan_file(python_files[i], st.results)))

\* what scan_directory returns after the loop
directory_summary(python_files, st) ==
    [results |-> st.results,
     summary |-> [total_files |-> Len(python_files),
                  files_scanned |-> Len(st.all_results),
                  total_issues |-> st.total_issues,
                  project_score |-> _calculate_project_score(st.all_results),
                  files |-> st.all_results]]

\* scan_directory of a directory of Python files: [results, summary]
scan_directory(python_files, results) ==
    directory_summary(
        python_files,
        scan_python_files(python_files, 1,
            [results |-> results, all_results |-> <<>>,
             total_issues |-> [security |-> 0, smells |-> 0, clones |-> 0,
                               performance |-> 0]]))

MaxFiles == 2

MaxCalls == 2

SevenLines == [i \in 1..(DefaultMinLines + 1) |-> <<"a">>]

\* the files of a directory: two that parse, with and without findings,
\* one of them with a repeated window; one with a syntax error; one that
\* cannot be read; one nested too deeply
Sources(path) ==
    {ScannedFile(TextFile(path, TRUE, <<<<"a">>, <<"b">>>>), fd) :
        fd \in {NoFindings, SomeFindings}} \cup
    {ScannedFile(TextFile(path, TRUE, SevenLines), NoFindings),
     ScannedFile(TextFile(path, TRUE, <<<<"a">>, <<" ", "b">>>>), NoFindings),
     ScannedFile(Unreadable(path), NoFindings),
     ScannedFile(DeepFile(path), NoFindings)}

Paths == <<"A", "B", "C", "D">>

RECURSIVE Listings(_)
\* the directories of at most n files
Listings(n) ==
    IF n = 0 THEN {<<>>}
    ELSE LET shorter == Listings(n - 1)
         IN  shorter \cup UNION {{Append(d, f) : f \in Sources(Paths[n])} :
                                 d \in {e \in shorter : Len(e) = n - 1}}

\* ------------------------------------------------------------------------
\* One ComprehensiveScanner: calls of scan_file and of scan_directory
InitScan ==
    /\ pc = "new"
    /\ scanner = NewScanner @@ [calls |-> 0]
    /\ file = <<>>
    /\ result = NoResult
    /\ detector = Idle
    /\ tree = <<>>
    /\ cfg = SimpleGraph
    /\ node_counter = 0
    /\ dfg = SimpleGraph
    /\ call_graph = SimpleGraph

ScanFile(f) ==
    /\ scanner.calls < MaxCalls
    /\ \E r \in {scan_file(f, scanner.results)} :
          /\ scanner' = [scanner EXCEPT !.results = r.results, !.calls = @ + 1]
          /\ pc' = IF r.outcome = "returned" THEN "scanned" ELSE "raised"
          /\ result' = IF r.outcome = "returned" THEN r.results ELSE NoResult
    /\ file' = <<f>>
    /\ UNCHANGED <<detector, tree, cfg, node_counter, dfg, call_graph>>

ScanDirectory(d) ==
    /\ scanner.calls < MaxCalls
    /\ \E r \in {scan_directory(d, scanner.results)} :
          /\ scanner' = [scanner EXCEPT !.results = r.results, !.calls = @ + 1]
          /\ result' = r.summary
    /\ pc' = "summary"
    /\ file' = d
    /\ UNCHANGED <<detector, tree, cfg, node_counter, dfg, call_graph>>

NextScan ==
    \/ \E f \in Sources("A") : ScanFile(f)
    \/ \E d \in Listings(MaxFiles) : ScanDirectory(d)

SpecScan == InitScan /\ [][NextScan]_vars

\* a file that can be read and that the parser rejects
FailsToParse(f) == f.readable /\ f.parse # "ok"

\* a result without findings and without metrics
ZeroFindings(r) ==
    \/ r.status = "error"
    \/ /\ r.status = "ok"
       /\ r.control_flow_analysis.issues = <<>>
       /\ r.data_flow_analysis.issues = <<>>
       /\ r.dependency_analysis.issues = <<>>

ScannedPaths == {result.files[i].path : i \in 1..Len(result.files)}

\* C6: analyze_file does not raise on a file that fails to parse but returns
\* a result of zero findings, and the directory scan goes on with the files
\* after it
C6_ParseFailure ==
    pc = "summary" =>
        \A k \in 1..Len(file) :
            FailsToParse(file[k]) =>
                /\ analyze_file(file[k], NewEngine).outcome = "returned"
                /\ ZeroFindings(analyze_file(file[k], NewEngine).result)
                /\ \A j \in (k + 1)..Len(file) :
                      scan_file(file[j], NewScanner.results).outcome = "returned"
                          => file[j].path \in ScannedPaths

CloneDetectorRaises(f) ==
    detect_clones_in_file(f, NewDetector(DefaultMinLines)).outcome = "raised"

DeepAnalysisRaises(f) == analyze_file(f, NewEngine).outcome = "raised"

\* C7: when the clone detector raises on the file, scan_file still returns
\* the bundle with the results of the deep analysis, and when the deep
\* analysis raises, with the results of the clone detector
C7_Isolation ==
    (pc \in {"scanned", "raised"}) =>
        /\ CloneDetectorRaises(file[1]) /\ ~DeepAnalysisRaises(file[1]) =>
              /\ pc = "scanned"
              /\ result.deep_analysis = analyze_file(file[1], NewEngine).result
        /\ DeepAnalysisRaises(file[1]) /\ ~CloneDetectorRaises(file[1]) =>
              /\ pc = "scanned"
              /\ result.clone_detection =
                    get_clone_report(detect_clones_in_file(
                        file[1], NewDetector(DefaultMinLines)).clones)

\* ------------------------------------------------------------------------
\* _calculate_quality_score on the results of the analyses
MaxIssues == 2

Severities == {"error", "warning", "info"}

RECURSIVE IssueLists(_)
\* the lists of at most n issues
IssueLists(n) ==
    IF n = 0 THEN {<<>>}
    ELSE LET shorter == IssueLists(n - 1)
         IN  shorter \cup {Append(l, Issue("issue", sv, 0)) :
                              l \in {x \in shorter : Len(x) = n - 1}, sv \in Severities}

\* the dependency analysis reports at most two issues, both warnings
DependencyIssues ==
    {<<>>, <<Issue("circular_dependency", "warning", 1)>>,
     <<Issue("circular_dependency", "warning", 1), Issue("high_coupling", "warning", 0)>>}

\* combined complexity scores and average couplings, in hundredths
CombinedScores == {0, 500, 640, 2600}

Couplings == {0, 300, 550}

\* the results before the score is set
InitQuality ==
    /\ pc = "results"
    /\ \E cf, df \in IssueLists(MaxIssues), dp \in DependencyIssues,
          cc \in CombinedScores, ac \in Couplings :
          result = [status |-> "ok",
                    control_flow_analysis |-> [issues |-> cf],
                    data_flow_analysis |-> [issues |-> df],
                    dependency_analysis |-> [issues |-> dp, average_coupling |-> ac],
                    complexity_metrics |-> [combined_complexity_score |-> cc],
                    code_quality_score |-> 0]
    /\ file = Idle
    /\ tree = <<>>
    /\ cfg = SimpleGraph
    /\ node_counter = 0
    /\ dfg = SimpleGraph
    /\ call_graph = SimpleGraph
    /\ detector = Idle
    /\ scanner = Idle

\* results['code_quality_score'] = self._calculate_quality_score(results)
CalculateQualityScore ==
    /\ pc = "results"
    /\ result' = [result EXCEPT !.code_quality_score = _calculate_quality_score(result)]
    /\ pc' = "scored"
    /\ UNCHANGED <<file, tree, cfg, node_counter, dfg, call_graph, detector, scanner>>

\* the same in the networkx engine
CalculateQualityScoreNx ==
    /\ pc = "results"
    /\ result' = [result EXCEPT !.code_quality_score = _calculate_quality_score_nx(result)]
    /\ pc' = "scored_nx"
    /\ UNCHANGED <<file, tree, cfg, node_counter, dfg, call_graph, detector, scanner>>

NextQuality == CalculateQualityScore \/ CalculateQualityScoreNx

SpecQuality == InitQuality /\ [][NextQuality]_vars

AllIssues ==
    result.control_flow_analysis.issues \o result.data_flow_analysis.issues \o
    result.dependency_analysis.issues

NumberOf(sev) == Cardinality({i \in 1..Len(AllIssues) : AllIssues[i].severity = sev})

\* what the complexity takes off the score, in hundredths
ComplexityPenalties ==
    (IF result.complexity_metrics.combined_complexity_score > 500
     THEN 5 * (result.complexity_metrics.combined_complexity_score - 500) ELSE 0) +
    (IF pc = "scored_nx" /\ result.dependency_analysis.average_coupling > 300
     THEN 3 * (result.dependency_analysis.average_coupling - 300) ELSE 0)

Unclamped ==
    10000 - 1000 * NumberOf("error") - 500 * NumberOf("warning") - 200 * NumberOf("info")
    - ComplexityPenalties

\* C11: the score is 100 less 10 for every error, 5 for every warning and
\* 2 for every info issue of the three analyses together, less the
\* complexity penalties, and it is always within [0, 100]
C11_QualityScore ==
    (pc \in {"scored", "scored_nx"}) =>
        /\ result.code_quality_score \in 0..10000
        /\ result.code_quality_score =
              (IF Unclamped < 0 THEN 0 ELSE IF Unclamped > 10000 THEN 10000 ELSE Unclamped)

\* issues of the three severities in two analyses, a complexity penalty, and
\* a score strictly inside the range
C11_Witness ==
    /\ pc = "scored"
    /\ NumberOf("warning") = 3
    /\ NumberOf("info") = 1
    /\ NumberOf("error") = 1
    /\ result.complexity_metrics.combined_complexity_score = 640
    /\ result.code_quality_score = 6600

\* so many penalties that the score is held at 0
C11_WitnessFloor ==
    /\ pc = "scored_nx"
    /\ Unclamped < 0
    /\ result.code_quality_score = 0

\* ------------------------------------------------------------------------
\* AdvancedMetricsCalculator: the maintainability index
\* math.log2 and math.log in fixed point: Log2Fix(x) is log2(x) in 1024ths,
\* cut after ten binary places; LnMilli(x, d) is ln(x / d) in thousandths
RECURSIVE Pow2(_)
Pow2(e) == IF e = 0 THEN 1 ELSE 2 * Pow2(e - 1)

RECURSIVE FloorLog2(_)
FloorLog2(x) == IF x < 2 THEN 0 ELSE 1 + FloorLog2(x \div 2)

\* x / 2^FloorLog2(x), a number in [1, 2), in 4096ths
Mantissa(x) ==
    IF FloorLog2(x) >= 12 THEN x \div Pow2(FloorLog2(x) - 12)
    ELSE x * Pow2(12 - FloorLog2(x))

RECURSIVE FracBits(_, _)
\* the next k binary places of log2 of m / 4096
FracBits(m, k) ==
    IF k = 0 THEN 0
    ELSE IF (m * m) \div 4096 >= 8192
         THEN Pow2(k - 1) + FracBits((m * m) \div 8192, k - 1)
         ELSE FracBits((m * m) \div 4096, k - 1)

Log2Fix(x) == 1024 * FloorLog2(x) + FracBits(Mantissa(x), 10)

\* ln 2 = 0.6931
LnMilli(x, d) == ((Log2Fix(x) - Log2Fix(d)) * 6931) \div 10240

\* HalsteadMetrics and its properties vocabulary, length and volume; the
\* volume in 1024ths
HalsteadMetrics(n1, n2, N1, N2) == [n1 |-> n1, n2 |-> n2, N1 |-> N1, N2 |-> N2]

vocabulary(h) == h.n1 + h.n2

length(h) == h.N1 + h.N2

volume(h) == IF vocabulary(h) = 0 THEN 0 ELSE length(h) * Log2Fix(vocabulary(h))

DefaultIndex == 50

\* the index without the limits of 0 and 100
maintainability_unbounded(halstead, complexity, code_lines) ==
    171000 - (52 * LnMilli(volume(halstead), 1024)) \div 10 - 230 * complexity
           - (162 * LnMilli(code_lines, 1)) \div 10

\* the index left as computed, without the limits
maintainability_index_unlimited(halstead, complexity, code_lines) ==
    IF volume(halstead) > 0 /\ code_lines > 0
    THEN maintainability_unbounded(halstead, complexity, code_lines)
    ELSE 1000 * DefaultIndex

\* the maintainability index of calculate_maintainability_metrics,
\* in thousandths
maintainability_index(halstead, complexity, code_lines) ==
    IF volume(halstead) > 0 /\ code_lines > 0
    THEN MaxOf(0, MinOf(100000,
                        maintainability_unbounded(halstead, complexity, code_lines)))
    ELSE 1000 * DefaultIndex

MaxDistinct == 2

\* how often the operators, or the operands, of a text occur: once each,
\* three times each, a thousand times each
Repeats == {1, 3, 1000}

\* the numbers of distinct and of all operators (or operands) of a text
Occurrences == {<<n, n * k>> : n \in 0..MaxDistinct, k \in Repeats}

CyclomaticComplexities == {1, 2, 15}

CodeLines == {0, 1, 20, 5000}

\* calculate_maintainability_metrics after the Halstead metrics, the
\* cyclomatic complexity and the code lines of the text have been counted
InitMaintainability ==
    /\ pc = "counted"
    /\ \E ops, opd \in Occurrences, c \in CyclomaticComplexities, l \in CodeLines :
          file = [halstead |-> HalsteadMetrics(ops[1], opd[1], ops[2], opd[2]),
                  complexity |-> c, code_lines |-> l]
    /\ result = NoResult
    /\ tree = <<>>
    /\ cfg = SimpleGraph
    /\ node_counter = 0
    /\ dfg = SimpleGraph
    /\ call_graph = SimpleGraph
    /\ detector = Idle
    /\ scanner = Idle

CalculateMaintainabilityMetrics ==
    /\ pc = "counted"
    /\ result' = [maintainability_index |->
                     maintainability_index(file.halstead, file.complexity, file.code_lines)]
    /\ pc' = "maintainability"
    /\ UNCHANGED <<file, tree, cfg, node_counter, dfg, call_graph, detector, scanner>>

NextMaintainability == CalculateMaintainabilityMetrics

SpecMaintainability == InitMaintainability /\ [][NextMaintainability]_vars

\* C12: the maintainability index is within [0, 100], and it is 50 whenever
\* the Halstead volume or the number of code lines is zero
C12_MaintainabilityIndex ==
    pc = "maintainability" =>
        /\ result.maintainability_index \in 0..100000
        /\ (volume(file.halstead) = 0 \/ file.code_lines = 0)
              => result.maintainability_index = 50000

\* a text whose index would be below 0 and is held at 0
C12_Witness ==
    /\ pc = "maintainability"
    /\ volume(file.halstead) > 0
    /\ file.code_lines > 0
    /\ maintainability_unbounded(file.halstead, file.complexity, file.code_lines) < 0
    /\ result.maintainability_index = 0

\* a text without operators and operands
C12_WitnessDefault ==
    /\ pc = "maintainability"
    /\ volume(file.halstead) = 0
    /\ file.code_lines > 0
    /\ result.maintainability_index = 50000

\* ------------------------------------------------------------------------
\* AdvancedMetricsCalculator._calculate_cognitive_complexity
\* what visit_node adds at node n when `depth` loops and conditionals
\* enclose it, were the nesting not counted
own_complexity_flat(t, n, depth) ==
    (IF KindAt(t, n) \in {"If", "While", "For"} THEN 1 ELSE 0) +
    (IF KindAt(t, n) = "BoolOp" THEN Len(FieldOf(t, n, "values")) - 1 ELSE 0) +
    (IF KindAt(t, n) = "Call" /\ \E c \in Range(FieldOf(t, n, "func")) : t[c].kind = "Name"
     THEN 1 ELSE 0)

\* what visit_node adds at node n
own_complexity(t, n, depth) ==
    (IF KindAt(t, n) \in {"If", "While", "For"} THEN 1 + depth ELSE 0) +
    (IF KindAt(t, n) = "BoolOp" THEN Len(FieldOf(t, n, "values")) - 1 ELSE 0) +
    (IF KindAt(t, n) = "Call" /\ \E c \in Range(FieldOf(t, n, "func")) : t[c].kind = "Name"
     THEN 1 ELSE 0)

RECURSIVE cognitive_visit_node(_, _, _)
RECURSIVE cognitive_visit_children(_, _, _)
\* visit_node(node, depth): the complexity added by the subtree of n
cognitive_visit_node(t, n, depth) ==
    own_complexity(t, n, depth) +
    cognitive_visit_children(t, iter_child_nodes(t, n),
                             IF KindAt(t, n) \in {"If", "While", "For"}
                             THEN depth + 1 ELSE depth)

cognitive_visit_children(t, ns, depth) ==
    IF ns = <<>> THEN 0
    ELSE cognitive_visit_node(t, Head(ns), depth) +
         cognitive_visit_children(t, Tail(ns), depth)

_calculate_cognitive_complexity(t) == cognitive_visit_node(t, 0, 0)

\* ------------------------------------------------------------ source lines
\* a source of simple lines, each a statement and its indentation:
\*   for   "for x in y:"     if   "if a:"     else  "else:"
\*   pass  "pass"            call "f()"       and   "a and b and c"
\*   import "import os"     def  "def f():"  class "class C:"
SourceLine(stmt, indent) == [stmt |-> stmt, indent |-> indent]

Statements == {"for", "if", "else", "pass", "call", "and"}

\* the nodes ast.parse makes of one line, the first at index n, held by
\* `field` of node `parent` (the expression contexts are left out)
line_nodes(stmt, n, parent, field) ==
    CASE stmt = "for" -> <<Node("For", parent, field, "", ""),
                           Node("Name", n, "target", "x", "Store"),
                           Node("Name", n, "iter", "y", "Load")>>
      [] stmt = "if" -> <<Node("If", parent, field, "", ""),
                          Node("Name", n, "test", "a", "Load")>>
      [] stmt = "pass" -> <<Node("Pass", parent, field, "", "")>>
      [] stmt = "call" -> <<Node("Expr", parent, field, "", ""),
                            Node("Call", n, "value", "", ""),
                            Node("Name", n + 1, "func", "f", "Load")>>
      [] stmt = "import" -> <<Node("Import", parent, field, "", ""),
                              Node("alias", n, "names", "os", "")>>
      [] stmt = "add" -> <<Node("Expr", parent, field, "", ""),
                           Node("BinOp", n, "value", "", ""),
                           Node("Name", n + 1, "left", "a", "Load"),
                           Node("Add", n + 1, "op", "", ""),
                           Node("Name", n + 1, "right", "b", "Load")>>
      [] stmt = "return" -> <<Node("Return", parent, field, "", ""),
                              Node("Constant", n, "value", "", "")>>
      [] stmt = "def" -> <<Node("FunctionDef", parent, field, "f", "")>>
      [] stmt = "class" -> <<Node("ClassDef", parent, field, "C", "")>>
      [] stmt = "and" -> <<Node("Expr", parent, field, "", ""),
                           Node("BoolOp", n, "value", "", ""),
                           Node("Name", n + 1, "values", "a", "Load"),
                           Node("Name", n + 1, "values", "b", "Load"),
                           Node("Name", n + 1, "values", "c", "Load")>>

\* the parser before the first line: the Module holds the statements
\* without indentation
NewParse == [lines |-> <<>>, tree |-> <<>>, open |-> <<[node |-> 0, field |-> "body"]>>,
             header |-> FALSE]

\* the statements that open a block
Headers == {"for", "if", "def", "class"}

\* a line the parser accepts after the lines of s: the block of a header
\* is indented by one, an `else` closes the body of a statement at its own
\* indentation, any other line belongs to one of the open blocks
accepts(s, l) ==
    /\ s.header => l.indent = Len(s.open) - 1
    /\ l.indent <= Len(s.open) - 1
    /\ l.stmt = "else" =>
          /\ ~s.header
          /\ l.indent <= Len(s.open) - 2
          /\ s.open[l.indent + 2].field = "body"
          /\ s.tree[s.open[l.indent + 2].node].kind \in {"For", "If"}

\* the parser after one more line
parse_line(s, l) ==
    IF l.stmt = "else"
    THEN [lines |-> Append(s.lines, l),
          tree |-> s.tree,
          open |-> Append(SubSeq(s.open, 1, l.indent + 1),
                          [node |-> s.open[l.indent + 2].node, field |-> "orelse"]),
          header |-> TRUE]
    ELSE [lines |-> Append(s.lines, l),
          tree |-> s.tree \o line_nodes(l.stmt, Len(s.tree) + 1,
                                        s.open[l.indent + 1].node, s.open[l.indent + 1].field),
          open |-> IF l.stmt \in Headers
                   THEN Append(SubSeq(s.open, 1, l.indent + 1),
                               [node |-> Len(s.tree) + 1, field |-> "body"])
                   ELSE SubSeq(s.open, 1, l.indent + 1),
          header |-> l.stmt \in Headers]

RECURSIVE parse_from_lenient(_, _)
\* a parser that keeps what it read before the error
parse_from_lenient(s, lines) ==
    IF lines = <<>> THEN [parse |-> "ok", tree |-> s.tree]
    ELSE IF accepts(s, Head(lines))
    THEN parse_from_lenient(parse_line(s, Head(lines)), Tail(lines))
    ELSE [parse |-> "ok", tree |-> s.tree]

RECURSIVE parse_from(_, _)
\* ast.parse of the lines that follow those of s: the tree, or a SyntaxError
\* at a line the parser does not accept or at a header without a block
parse_from(s, lines) ==
    IF lines = <<>>
    THEN (IF s.header THEN [parse |-> "SyntaxError", tree |-> <<>>]
          ELSE [parse |-> "ok", tree |-> s.tree])
    ELSE IF accepts(s, Head(lines)) THEN parse_from(parse_line(s, Head(lines)), Tail(lines))
    ELSE [parse |-> "SyntaxError", tree |-> <<>>]

ast_parse(lines) == parse_from(NewParse, lines)

MaxStmts == 5

LinesAt(n) == {SourceLine(st, d) : st \in Statements, d \in 0..(n - 1)}

RECURSIVE Parses(_)
\* the parser after n accepted lines
Parses(n) ==
    IF n = 0 THEN {NewParse}
    ELSE UNION {{parse_line(s, l) : l \in {x \in LinesAt(n) : accepts(s, x)}} :
                   s \in Parses(n - 1)}

\* the sources of at most n lines that parse: the last line is no header
Parsed(n) == {s \in UNION {Parses(k) : k \in 0..n} : ~s.header}

\* a parsed source
InitCognitive ==
    /\ pc = "parsed"
    /\ \E s \in Parsed(MaxStmts) :
          /\ file = s.lines
          /\ tree = s.tree
    /\ result = NoResult
    /\ cfg = SimpleGraph
    /\ node_counter = 0
    /\ dfg = SimpleGraph
    /\ call_graph = SimpleGraph
    /\ detector = Idle
    /\ scanner = Idle

CalculateCognitiveComplexity ==
    /\ pc = "parsed"
    /\ result' = _calculate_cognitive_complexity(tree)
    /\ pc' = "cognitive"
    /\ UNCHANGED <<file, tree, cfg, node_counter, dfg, call_graph, detector, scanner>>

NextCognitive == CalculateCognitiveComplexity

SpecCognitive == InitCognitive /\ [][NextCognitive]_vars

LoopsAndConditionals == {n \in 1..Len(tree) : tree[n].kind \in {"If", "While", "For"}}

\* the loops and conditionals that enclose node n
Enclosing(n) == (AncestorsOrSelf(tree, n) \ {n}) \cap LoopsAndConditionals

NoBoolOpNoCall == \A i \in 1..Len(file) : file[i].stmt \notin {"and", "call"}

ForIfIfIf ==
    <<SourceLine("for", 0), SourceLine("if", 1), SourceLine("if", 2), SourceLine("if", 3),
      SourceLine("pass", 4)>>

\* C13: without boolean operators and calls of a bare name, every loop or
\* conditional adds 1 plus the number of loops and conditionals enclosing
\* it, and for: if: if: if: gives 1 + 2 + 3 + 4 = 10
C13_CognitiveComplexity ==
    (pc = "cognitive" /\ NoBoolOpNoCall) =>
        /\ result = Sum([i \in 1..Len(tree) |->
                           IF i \in LoopsAndConditionals
                           THEN 1 + Cardinality(Enclosing(i)) ELSE 0])
        /\ file = ForIfIfIf => result = 10

C13_Witness ==
    /\ pc = "cognitive"
    /\ file = ForIfIfIf
    /\ result = 10

\* ------------------------------------------------------------------------
\* PulseScanner (scanner.py)
\* a component of a path: its name is stem + suffix, and suffix is what
\* pathlib gives as the suffix of the name
Component(stem, suffix) == [stem |-> stem, suffix |-> suffix]

\* EXCLUDE_PATTERNS: the plain patterns, and the wildcard patterns without
\* their star
PlainPatterns ==
    {"__pycache__", ".git", ".svn", ".hg", "node_modules", ".venv", "venv", "env",
     ".idea", ".vscode", "dist", "build", ".DS_Store"}

WildcardSuffixes == {".pyc", ".pyo", ".egg-info"}

LANGUAGE_MAP ==
    [x \in {".py", ".pyw", ".js", ".jsx", ".mjs", ".ts", ".tsx", ".java", ".cpp", ".cc",
            ".cxx", ".hpp", ".h", ".c", ".go", ".rs", ".rb", ".php", ".swift", ".kt",
            ".kts", ".html", ".htm", ".css", ".scss", ".sass", ".json", ".xml", ".yml",
            ".yaml", ".md", ".sh", ".bash", ".sql"} |->
        CASE x \in {".py", ".pyw"} -> "Python"
          [] x \in {".js", ".jsx", ".mjs"} -> "JavaScript"
          [] x \in {".ts", ".tsx"} -> "TypeScript"
          [] x = ".java" -> "Java"
          [] x \in {".cpp", ".cc", ".cxx", ".hpp"} -> "C++"
          [] x = ".h" -> "C/C++"
          [] x = ".c" -> "C"
          [] x = ".go" -> "Go"
          [] x = ".rs" -> "Rust"
          [] x = ".rb" -> "Ruby"
          [] x = ".php" -> "PHP"
          [] x = ".swift" -> "Swift"
          [] x \in {".kt", ".kts"} -> "Kotlin"
          [] x \in {".html", ".htm"} -> "HTML"
          [] x \in {".css", ".scss", ".sass"} -> "CSS"
          [] x = ".json" -> "JSON"
          [] x = ".xml" -> "XML"
          [] x \in {".yml", ".yaml"} -> "YAML"
          [] x = ".md" -> "Markdown"
          [] x \in {".sh", ".bash"} -> "Shell"
          [] x = ".sql" -> "SQL"]

\* should_exclude(path), path the sequence of the components of the path
should_exclude(path) ==
    \/ path # <<>> /\ path[Len(path)].suffix \in WildcardSuffixes
    \/ \E i \in 1..Len(path) : path[i].suffix = "" /\ path[i].stem \in PlainPatterns

\* a file of the project: the directories from the root to it, its name
\* and its lines
ProjectFile(dir, name, text) == [dir |-> dir, name |-> name, text |-> text]

DecisionPoints == {"If", "For", "While", "ExceptHandler", "With"}

\* the names of the functions among the nodes ms
method_names(t, ms) == [i \in 1..Len(ms) |-> t[ms[i]].id]

class_info(t, n) ==
    [name |-> t[n].id, lineno |-> lineno(t, n),
     methods |-> method_names(t, SelectSeq(FieldOf(t, n, "body"),
                                LAMBDA m : t[m].kind \in {"FunctionDef", "AsyncFunctionDef"}))]

\* what one node adds to the result of analyze_python_ast
analyze_node(t, n, r) ==
    IF KindAt(t, n) = "Import"
    THEN [r EXCEPT !.imports = @ \o [i \in 1..Len(FieldOf(t, n, "names")) |->
                                        t[FieldOf(t, n, "names")[i]].id]]
    ELSE IF KindAt(t, n) = "ImportFrom"
    THEN (IF t[n].id # "" THEN [r EXCEPT !.imports = Append(@, t[n].id)] ELSE r)
    ELSE IF KindAt(t, n) = "FunctionDef"
    THEN [r EXCEPT !.functions = Append(@, [name |-> t[n].id, lineno |-> lineno(t, n)]),
                   !.complexity = @ + Cardinality({m \in Range(walk(t, n)) :
                                                      KindAt(t, m) \in DecisionPoints})]
    ELSE IF KindAt(t, n) = "ClassDef"
    THEN [r EXCEPT !.classes = Append(@, class_info(t, n))]
    ELSE r

RECURSIVE analyze_nodes(_, _, _)
\* the loop over ast.walk(tree)
analyze_nodes(t, ns, r) ==
    IF ns = <<>> THEN r ELSE analyze_nodes(t, Tail(ns), analyze_node(t, Head(ns), r))

\* the complexity brought to the range 0..100
normalized(r, total_functions) ==
    IF total_functions > 0
    THEN [r EXCEPT !.complexity = IF 10 * r.complexity >= 100 * total_functions
                                  THEN Rat(100, 1) ELSE Rat(10 * r.complexity, total_functions)]
    ELSE [r EXCEPT !.complexity = Rat(0, 1)]

normalize_complexity(r) ==
    normalized(r, Len(r.functions) + Sum([i \in 1..Len(r.classes) |-> Len(r.classes[i].methods)]))

EmptyAnalysis == [imports |-> <<>>, functions |-> <<>>, classes |-> <<>>, complexity |-> 0]

analyze_parsed(p) ==
    IF p.parse = "ok" THEN normalize_complexity(analyze_nodes(p.tree, walk(p.tree, 0), EmptyAnalysis))
    ELSE [EmptyAnalysis EXCEPT !.complexity = Rat(0, 1)]

\* analyze_python_ast: every failure of the parser is caught, and the
\* result is then as it was before the parse
analyze_python_ast(f) == analyze_parsed(ast_parse(f.text))

\* the FileMetadata of a Python file with its analysis
with_analysis(metadata, analysis) ==
    [metadata EXCEPT !.imports = analysis.imports, !.functions = analysis.functions,
                     !.classes = analysis.classes, !.complexity_score = analysis.complexity]

\* scan_file: the FileMetadata of the file (size and hash left out)
PulseScanner_scan_file(f) ==
    IF f.name.suffix = ".py"
    THEN with_analysis([path |-> Append(f.dir, f.name), lines |-> Len(f.text),
                        language |-> "Python", imports |-> <<>>, functions |-> <<>>,
                        classes |-> <<>>, complexity_score |-> Rat(0, 1)],
                       analyze_python_ast(f))
    ELSE [path |-> Append(f.dir, f.name), lines |-> Len(f.text),
          language |-> IF f.name.suffix \in DOMAIN LANGUAGE_MAP
                       THEN LANGUAGE_MAP[f.name.suffix] ELSE "Unknown",
          imports |-> <<>>, functions |-> <<>>, classes |-> <<>>,
          complexity_score |-> Rat(0, 1)]

DefaultMaxDepth == 10

\* PulseScanner.__init__
NewPulseScanner(root_path, max_depth) ==
    [root_path |-> root_path, max_depth |-> max_depth,
     structure |-> [total_files |-> 0, total_lines |-> 0, languages |-> <<>>,
                    files |-> <<>>]]

\* os.walk leaves out what is below a directory that should_exclude names
pruned(root_path, dir) ==
    \E k \in 1..Len(dir) : should_exclude(root_path \o SubSeq(dir, 1, k))

\* whether the loop of scan() hands the file to scan_file
scans(sc, f) ==
    /\ Len(f.dir) <= sc.max_depth
    /\ ~pruned(sc.root_path, f.dir)
    /\ ~should_exclude(sc.root_path \o f.dir \o <<f.name>>)
    /\ f.name.suffix \in DOMAIN LANGUAGE_MAP

\* language_counts[language] += 1
counted(language_counts, language) ==
    IF language \in DOMAIN language_counts
    THEN [language_counts EXCEPT ![language] = @ + 1]
    ELSE language_counts @@ (language :> 1)

\* the loop of scan() after the file with the metadata m
scanned(st, m) ==
    [files |-> Append(st.files, m), total_lines |-> st.total_lines + m.lines,
     language_counts |-> counted(st.language_counts, m.language)]

RECURSIVE scan_files(_, _, _)
\* the loop of scan() over the files in the order of os.walk;
\* st = [files, total_lines, language_counts]
scan_files(sc, fs, st) ==
    IF fs = <<>> THEN st
    ELSE scan_files(sc, Tail(fs),
                    IF scans(sc, Head(fs)) THEN scanned(st, PulseScanner_scan_file(Head(fs)))
                    ELSE st)

\* the structure after the loop
aggregated(st) ==
    [total_files |-> Len(st.files), total_lines |-> st.total_lines,
     languages |-> st.language_counts, files |-> st.files]

\* scan(): the new self.structure (the dependency graph left out)
scan(sc, fs) ==
    aggregated(scan_files(sc, fs, [files |-> sc.structure.files,
                                   total_lines |-> sc.structure.total_lines,
                                   language_counts |-> <<>>]))

\* ------------------------------------------------------------------------
\* One PulseScanner over a project: scan(), scan_file, analyze_python_ast
MaxScans == 2

\* module1.py of the tests: two imports, a function, a class of two methods
Module1Text ==
    <<SourceLine("import", 0), SourceLine("import", 0),
      SourceLine("def", 0), SourceLine("pass", 1),
      SourceLine("class", 0), SourceLine("def", 1), SourceLine("pass", 2),
      SourceLine("def", 1), SourceLine("pass", 2)>>

\* the files a project may hold, in the order of os.walk
Catalogue ==
    <<ProjectFile(<<>>, Component("module1", ".py"), Module1Text),
      ProjectFile(<<>>, Component("bad", ".py"), <<SourceLine("def", 0)>>),
      ProjectFile(<<>>, Component("app", ".js"), <<SourceLine("pass", 0)>>),
      ProjectFile(<<>>, Component("notes", ".txt"), <<SourceLine("pass", 0)>>),
      ProjectFile(<<Component("pkg", ".egg-info")>>, Component("setup", ".py"),
                  <<SourceLine("import", 0)>>),
      ProjectFile(<<Component("src", ""), Component("__pycache__", "")>>,
                  Component("helper", ".py"), <<SourceLine("pass", 0)>>),
      ProjectFile(<<Component("src", ""), Component("core", "")>>,
                  Component("scanner", ".py"),
                  <<SourceLine("def", 0), SourceLine("pass", 1)>>)>>

Projects == {SelectSeq(Catalogue, LAMBDA f : f \in S) : S \in SUBSET Range(Catalogue)}

\* where the project lies
Roots ==
    {<<Component("home", ""), Component("proj", "")>>,
     <<Component("home", ""), Component("build", ""), Component("proj", "")>>}

MaxDepths == {DefaultMaxDepth, 1}

PythonLines == {SourceLine(st, d) : st \in {"import", "def", "pass"}, d \in 0..1}

\* Python files of at most two lines, with and without valid syntax
SmallFiles ==
    {ProjectFile(<<>>, Component("small", ".py"), x) :
        x \in {<<>>} \cup {<<a>> : a \in PythonLines}
              \cup {<<a, b>> : a, b \in PythonLines}}

\* scanner.project is the content of the directory scanner.root_path,
\* scanner.scans the number of calls of scan()
InitPulse ==
    /\ pc = "new"
    /\ \E r \in Roots, d \in MaxDepths, p \in Projects :
          scanner = NewPulseScanner(r, d) @@ [project |-> p, scans |-> 0]
    /\ file = <<>>
    /\ result = NoResult
    /\ tree = <<>>
    /\ cfg = SimpleGraph
    /\ node_counter = 0
    /\ dfg = SimpleGraph
    /\ call_graph = SimpleGraph
    /\ detector = Idle

Scan ==
    /\ scanner.scans < MaxScans
    /\ \E r \in {scan(scanner, scanner.project)} :
          /\ scanner' = [scanner EXCEPT !.structure = r, !.scans = @ + 1]
          /\ result' = r
    /\ pc' = "scanned"
    /\ file' = scanner.project
    /\ UNCHANGED <<tree, cfg, node_counter, dfg, call_graph, detector>>

PulseScanFile(f) ==
    /\ pc # "file_scanned"
    /\ result' = PulseScanner_scan_file(f)
    /\ pc' = "file_scanned"
    /\ file' = <<f>>
    /\ UNCHANGED <<scanner, tree, cfg, node_counter, dfg, call_graph, detector>>

AnalyzePythonAst(f) ==
    /\ pc # "analyzed"
    /\ result' = analyze_python_ast(f)
    /\ pc' = "analyzed"
    /\ file' = <<f>>
    /\ UNCHANGED <<scanner, tree, cfg, node_counter, dfg, call_graph, detector>>

NextPulse ==
    \/ Scan
    \/ \E i \in 1..Len(scanner.project) : PulseScanFile(scanner.project[i])
    \/ \E f \in SmallFiles : AnalyzePythonAst(f)
    \/ \E i \in 1..Len(scanner.project) :
          scanner.project[i].name.suffix = ".py" /\ AnalyzePythonAst(scanner.project[i])

SpecPulse == InitPulse /\ [][NextPulse]_vars

\* the syntax of the text is valid: the first line is not indented, the block
\* of a header is indented by one, no other line is indented further than
\* the line before it, and the last line is no header
ValidSyntax(text) ==
    /\ text # <<>> => text[1].indent = 0 /\ text[Len(text)].stmt \notin Headers
    /\ \A i \in 2..Len(text) :
          IF text[i - 1].stmt \in Headers THEN text[i].indent = text[i - 1].indent + 1
          ELSE text[i].indent <= text[i - 1].indent

\* C14: analyze_python_ast on a file with invalid syntax returns a result
\* whose imports, functions and classes are empty
C14_InvalidSyntax ==
    (pc = "analyzed" /\ ~ValidSyntax(file[1].text)) =>
        /\ result.imports = <<>>
        /\ result.functions = <<>>
        /\ result.classes = <<>>

\* a function header without a block, after an import
C14_Witness ==
    /\ pc = "analyzed"
    /\ file[1].text = <<SourceLine("import", 0), SourceLine("def", 0)>>
    /\ result.imports = <<>>
    /\ result.functions = <<>>

\* the functions defined at the level of the module
ModuleLevelDefs(text) == {i \in 1..Len(text) : text[i] = SourceLine("def", 0)}

\* C15: metadata.functions holds the module-level functions only; module1.py,
\* one function and one class of two methods, gives 1 function and 1 class
C15_ModuleLevelFunctions ==
    (pc = "file_scanned" /\ file[1].name.suffix = ".py" /\ ValidSyntax(file[1].text)) =>
        /\ Len(result.functions) = Cardinality(ModuleLevelDefs(file[1].text))
        /\ file[1].text = Module1Text =>
              Len(result.functions) = 1 /\ Len(result.classes) = 1

\* the supported files under the root that no exclusion pattern names: no
\* component below the root is a plain pattern and the name does not end
\* with the suffix of a wildcard pattern
Excluded(f) ==
    \/ \E i \in 1..Len(f.dir) : f.dir[i].suffix = "" /\ f.dir[i].stem \in PlainPatterns
    \/ f.name.suffix = "" /\ f.name.stem \in PlainPatterns
    \/ f.name.suffix \in WildcardSuffixes

Supported(f) == f.name.suffix \in DOMAIN LANGUAGE_MAP

SupportedFiles == {i \in 1..Len(file) : Supported(file[i]) /\ ~Excluded(file[i])}

LanguageTotal ==
    Sum([i \in 1..Len(scanner.project) |->
            IF Cardinality({j \in 1..i : Supported(scanner.project[j]) /\
                  Supported(scanner.project[i]) /\
                  LANGUAGE_MAP[scanner.project[j].name.suffix]
                     = LANGUAGE_MAP[scanner.project[i].name.suffix]}) = 1
               /\ LANGUAGE_MAP[scanner.project[i].name.suffix] \in DOMAIN result.languages
            THEN result.languages[LANGUAGE_MAP[scanner.project[i].name.suffix]] ELSE 0])

\* C16: after every scan(), total_files is the number of supported files
\* that are not excluded, and the sum of the counts of the languages, and
\* total_lines is the sum of the lines of those files
C16_Totals ==
    (pc = "scanned" /\ scanner.max_depth = DefaultMaxDepth) =>
        /\ result.total_files = Cardinality(SupportedFiles)
        /\ result.total_files = LanguageTotal
        /\ result.total_lines = Sum([i \in 1..Len(file) |->
                                       IF i \in SupportedFiles THEN Len(file[i].text) ELSE 0])
        /\ file = <<>> => result.total_files = 0 /\ result.total_lines = 0

ScannedFiles == {result.files[i].path : i \in 1..Len(result.files)}

\* C17: scan() skips a supported file only when a component of its path
\* below the root is a plain exclusion pattern or its name ends with the
\* suffix of a wildcard pattern
C17_Exclusion ==
    pc = "scanned" =>
        \A i \in 1..Len(file) :
            (Supported(file[i]) /\ Len(file[i].dir) <= scanner.max_depth /\ Append(file[i].dir, file[i].name) \notin ScannedFiles)
                => Excluded(file[i])

\* ------------------------------------------------------------------------
\* Control-flow run over trees with jumps: loops and conditionals whose
\* blocks hold `break`, `return` and expression statements
JumpStmtIn(ks, f) == {Tmpl(k, f) : k \in ks}

JumpFamily ==
    [kids |-> [k \in {"Module", "If", "While", "For", "Expr"} |->
        CASE k = "Module" -> JumpStmtIn({"While", "For", "Return", "Expr"}, "body")
          [] k = "If" -> {Tmpl("Compare", "test")}
                            \cup JumpStmtIn({"Break", "Expr"}, "body")
                            \cup JumpStmtIn({"Continue", "Expr"}, "orelse")
          [] k = "While" -> {Tmpl("Compare", "test")}
                               \cup JumpStmtIn({"If", "For", "Break", "Expr"}, "body")
          [] k = "For" -> JumpStmtIn({"If", "Return", "Expr"}, "body")
          [] k = "Expr" -> {Tmpl("Name", "value")}],
     required |-> <<>>]

InitJump ==
    /\ pc = "parsed"
    /\ tree \in TreesUpTo(MaxNodes, JumpFamily)
    /\ cfg = SimpleGraph
    /\ node_counter = 0
    /\ dfg = SimpleGraph
    /\ call_graph = SimpleGraph
    /\ result = NoResult
    /\ file = Idle
    /\ detector = Idle
    /\ scanner = Idle

SpecJump == InitJump /\ [][NextCFG]_vars

\* the builder passes over the test of a conditional or a loop, the target,
\* the iterable and the `else` of a loop, the handlers of a `try` (but not
\* the statements of their bodies), and what is below a node it passed over
RECURSIVE Visited(_)
Visited(n) ==
    \/ tree[n].parent = 0
    \/ /\ tree[tree[n].parent].kind = "ExceptHandler"
       /\ tree[n].field = "body"
       /\ tree[tree[n].parent].field = "handlers"
       /\ Visited(tree[tree[n].parent].parent)
    \/ /\ Visited(tree[n].parent)
       /\ tree[tree[n].parent].kind = "If" => tree[n].field \in {"body", "orelse"}
       /\ tree[tree[n].parent].kind \in LoopKinds => tree[n].field = "body"
       /\ tree[tree[n].parent].kind = "Try" => tree[n].field = "body"

\* the node that hands a statement its tree edge: the parent, or the `try`
\* for the statements of a handler
Construct(n) ==
    IF tree[n].parent # 0 /\ tree[tree[n].parent].kind = "ExceptHandler"
    THEN tree[tree[n].parent].parent ELSE tree[n].parent

\* the nodes of the graph are numbered in the order of the visit
IdOf(n) == Cardinality({m \in 1..(n - 1) : Visited(m)})

\* the statements of the blocks of the constructs
BlockStatements ==
    {n \in 1..Len(tree) : Visited(n) /\ tree[n].parent # 0 /\ tree[n].field \in {"body", "orelse"}}

Siblings(n) == {m \in 1..Len(tree) : m # n /\ tree[m].parent = tree[n].parent}

AfterJump ==
    {n \in BlockStatements :
        \E m \in 1..(n - 1) : /\ tree[m].parent = tree[n].parent
                              /\ tree[m].field = tree[n].field
                              /\ tree[m].kind \in {"Break", "Return", "Continue"}}

\* C18: every statement of a block has its incoming tree edge from the node
\* of the enclosing construct and none from a sibling; the statements after
\* a `return`, `break` or `continue` of their block are reachable and not
\* among the nodes the unreachable_code warning counts
C18_SiblingsShareParent ==
    pc = "analyzed" =>
        /\ \A n \in BlockStatements :
              /\ <<IdOf(Construct(n)), IdOf(n)>> \in CfgEdges
              /\ \A m \in Siblings(n) : Visited(m) => <<IdOf(m), IdOf(n)>> \notin CfgEdges
        /\ \A n \in AfterJump :
              IdOf(n) \notin UnreachableSet

\* the loops the builder gave a node
Loops == {n \in 1..Len(tree) : Visited(n) /\ tree[n].kind \in LoopKinds}

\* the edges into the loop that do not come from the enclosing construct
BackEdges(n) ==
    {i \in 1..Len(cfg.edges) :
        /\ cfg.edges[i][2] = IdOf(n)
        /\ tree[n].parent = 0 \/ cfg.edges[i][1] # IdOf(Construct(n))}

Body(n) == FieldOf(tree, n, "body")

LastStatement(n) == Body(n)[Len(Body(n))]

\* the nodes below n, n included
Below(n) == {m \in 1..Len(tree) : n \in AncestorsOrSelf(tree, m)}

\* the last node the visit of the body created
LastVisited(n) ==
    CHOOSE m \in Below(n) \ {n} :
        Visited(m) /\ \A k \in Below(n) : Visited(k) => k <= m

\* C19: a loop with statements in its body has exactly one back-edge, from
\* the node of the last statement of the body; a loop with an empty body
\* has none
C19_BackEdgeFromLastStatement ==
    pc = "built" =>
        \A n \in Loops :
            IF Body(n) # <<>>
            THEN /\ Cardinality(BackEdges(n)) = 1
                 /\ \A i \in BackEdges(n) : cfg.edges[i][1] = IdOf(LastStatement(n))
            ELSE BackEdges(n) = {}

\* C19 as amended: the back-edge comes from the last node created for the
\* body, which is the last statement or the last node visited below it
C19_BackEdgeFromLastNode ==
    pc = "built" =>
        \A n \in Loops :
            IF Body(n) # <<>>
            THEN /\ Cardinality(BackEdges(n)) = 1
                 /\ \A i \in BackEdges(n) :
                       /\ cfg.edges[i][1] = IdOf(LastVisited(n))
                       /\ LastVisited(n) \in Below(LastStatement(n))
            ELSE BackEdges(n) = {}

\* a loop that ends with a conditional: the back-edge leaves the statement
\* of the conditional's block; and a loop without statements
C19_Witness ==
    /\ pc = "built"
    /\ \E n \in Loops :
          /\ Body(n) # <<>>
          /\ tree[LastStatement(n)].kind = "If"
          /\ LastVisited(n) # LastStatement(n)
          /\ <<IdOf(LastVisited(n)), IdOf(n)>> \in CfgEdges

C19_WitnessEmpty ==
    /\ pc = "built"
    /\ \E n \in Loops : Body(n) = <<>> /\ BackEdges(n) = {} /\ tree[n].parent # 0

\* C20: the nodes without a predecessor are exactly the nodes of the
\* top-level statements
C20_RootsAreTopLevel ==
    pc = "built" =>
        {n \in CfgKeys : NoPredecessor(n)} = {IdOf(n) : n \in Range(TopLevel(tree))}

\* ------------------------------------------------------------------------
\* Data-flow run over augmented assignments (`x += 1`, `x += y`) next to
\* plain assignments and expression statements
AugFamily ==
    [kids |-> [k \in {"Module", "Assign", "AugAssign", "Expr"} |->
        CASE k = "Module" -> {Tmpl("Assign", "body"), Tmpl("AugAssign", "body"),
                              Tmpl("Expr", "body")}
          [] k = "Assign" -> NameIn("targets", "Store") \cup NameIn("value", "Load") \cup
                             {Tmpl("Constant", "value")}
          [] k = "AugAssign" -> NameIn("target", "Store") \cup {Tmpl("Add", "op")} \cup
                                NameIn("value", "Load") \cup {Tmpl("Constant", "value")}
          [] k = "Expr" -> NameIn("value", "Load")],
     required |-> [k \in {"Assign", "AugAssign", "Expr"} |->
        CASE k = "Assign" -> {"targets", "value"}
          [] k = "AugAssign" -> {"target", "op", "value"}
          [] k = "Expr" -> {"value"}]]

InitAug ==
    /\ pc = "parsed"
    /\ tree \in TreesUpTo(MaxDataNodes, AugFamily)
    /\ cfg = SimpleGraph
    /\ node_counter = 0
    /\ dfg = SimpleGraph
    /\ call_graph = SimpleGraph
    /\ result = NoResult
    /\ file = Idle
    /\ detector = Idle
    /\ scanner = Idle

SpecAug == InitAug /\ [][NextDFG]_vars

\* the augmented assignments to the name v
AugAssignmentsTo(t, v) ==
    {t[n].parent : n \in {m \in NamesOf(t, v) :
                            t[m].field = "target" /\ t[t[m].parent].kind = "AugAssign"}}

\* dfg.nodes[v], with empty lists for a name the graph does not hold
DfgNode(v) ==
    IF v \in Range(dfg.keys) THEN dfg.attrs[IndexOf(dfg.keys, v)]
    ELSE [definitions |-> <<>>, uses |-> <<>>]

\* C21: an augmented assignment to x is recorded as a definition of x at its
\* line, and its target is not recorded as a use, so a variable written by
\* augmented assignments only has a definition list that is not empty
C21_AugmentedAssignment ==
    pc = "built" =>
        \A v \in {"x", "y"} :
            \A n \in AugAssignmentsTo(tree, v) :
                /\ lineno(tree, n) \in Range(DfgNode(v).definitions)
                /\ lineno(tree, FieldOf(tree, n, "target")[1]) \notin Range(DfgNode(v).uses)

\* ------------------------------------------------------------------------
\* Call-graph run: a parsed tree of functions that call by bare name or
\* through an attribute, build_call_graph, then _analyze_dependencies
MaxCallNodes == 8

CallFamily ==
    [kids |-> [k \in {"Module", "FunctionDef", "Expr", "Call"} |->
        CASE k = "Module" -> {[kind |-> "FunctionDef", field |-> "body", id |-> v, ctx |-> ""] :
                                 v \in {"f", "g"}}
          [] k = "FunctionDef" -> {Tmpl("Expr", "body")}
          [] k = "Expr" -> {Tmpl("Call", "value")}
          [] k = "Call" -> {[kind |-> "Name", field |-> "func", id |-> v, ctx |-> "Load"] :
                               v \in {"f", "g", "h"}} \cup {Tmpl("Attribute", "func")}],
     required |-> [k \in {"FunctionDef", "Expr", "Call"} |->
        CASE k = "FunctionDef" -> {"body"}
          [] k = "Expr" -> {"value"}
          [] k = "Call" -> {"func"}]]

InitCalls ==
    /\ pc = "parsed"
    /\ tree \in TreesUpTo(MaxCallNodes, CallFamily)
    /\ cfg = SimpleGraph
    /\ node_counter = 0
    /\ dfg = SimpleGraph
    /\ call_graph = SimpleGraph
    /\ result = NoResult
    /\ file = Idle
    /\ detector = Idle
    /\ scanner = Idle

BuildCallGraph ==
    /\ pc = "parsed"
    /\ call_graph' = build_call_graph(tree, call_graph)
    /\ pc' = "built"
    /\ UNCHANGED <<tree, cfg, node_counter, dfg, result, file, detector, scanner>>

AnalyzeDependencies ==
    /\ pc = "built"
    /\ result' = [status |-> "ok", dependency_analysis |-> _analyze_dependencies(call_graph)]
    /\ pc' = "analyzed"
    /\ UNCHANGED <<tree, cfg, node_counter, dfg, call_graph, file, detector, scanner>>

NextCalls == BuildCallGraph \/ AnalyzeDependencies

SpecCalls == InitCalls /\ [][NextCalls]_vars

\* the indexed functions: the name of every FunctionDef of the tree
Indexed == {tree[n].id : n \in {m \in 1..Len(tree) : tree[m].kind = "FunctionDef"}}

\* the names called by bare name below the node n
CalledBelow(n) ==
    {tree[m].id : m \in {k \in Below(n) : /\ tree[k].kind = "Name"
                                          /\ tree[k].field = "func"
                                          /\ tree[tree[k].parent].kind = "Call"}}

CallEdges == Range(call_graph.edges)

\* C22: every edge f -> g of the call graph joins two different indexed
\* functions, and g is called by bare name inside a function named f; a call
\* of a name that is no indexed function adds no edge
C22_CallEdges ==
    pc = "built" =>
        \A e \in CallEdges :
            /\ e[1] \in Indexed
            /\ e[2] \in Indexed
            /\ e[1] # e[2]
            /\ \E n \in 1..Len(tree) :
                  tree[n].kind = "FunctionDef" /\ tree[n].id = e[1] /\ e[2] \in CalledBelow(n)

RECURSIVE CalledFrom(_)
\* the functions reached from those of S by one call or more
CalledFrom(S) ==
    LET S2 == S \cup {e[2] : e \in {x \in CallEdges : x[1] \in S}}
    IN  IF S2 = S THEN S ELSE CalledFrom(S2)

HasCallCycle ==
    \E e \in CallEdges : e[1] \in CalledFrom({e[2]})

CircularIssues == IssuesOfType(result.dependency_analysis, "circular_dependency")

IsCallCycle(c) ==
    /\ c # <<>>
    /\ \A i \in 1..Len(c) : <<c[i], c[IF i = Len(c) THEN 1 ELSE i + 1]>> \in CallEdges

\* C23: a circular_dependency issue is emitted exactly when the call graph
\* has a directed cycle; every cycle _find_call_cycles returns is a cycle of
\* the graph, no two of them are the same, and the issue carries their number
C23_CircularDependency ==
    pc = "analyzed" =>
        LET cycles == _find_call_cycles(call_graph)
        IN  /\ (CircularIssues # <<>>) <=> HasCallCycle
            /\ \A i \in 1..Len(cycles) : IsCallCycle(cycles[i])
            /\ \A i, j \in 1..Len(cycles) : i # j => cycles[i] # cycles[j]
            /\ CircularIssues # <<>> =>
                  CircularIssues = <<Issue("circular_dependency", "warning", Len(cycles))>>

\* ------------------------------------------------------------------------
\* C24: a Type 1 record has the severity HIGH when its size is greater than
\* 20 lines and MEDIUM otherwise, in a file as well as between files
C24_Severity ==
    pc \in {"in_file", "between"} =>
        \A i \in 1..Len(result) :
            result[i].type = "Type 1" =>
                result[i].severity =
                    IF result[i].size > SeverityLimit THEN "HIGH" ELSE "MEDIUM"

\* the normalized lines lo..hi (1-based, both included)
WindowAt(span) == SubSeq(Normalized, span[1], span[2])

\* C28: the two windows of a Type 1 record of a file hold the same
\* normalized lines, line by line
C28_IdenticalWindows ==
    InFileDone =>
        \A i \in 1..Len(result) :
            result[i].type = "Type 1" =>
                WindowAt(result[i].lines1) = WindowAt(result[i].lines2)

\* ------------------------------------------------- SemanticCloneDetector
\* the scores are held in thousandths: 0.3, 0.2, 0.25, 0.125 and 0.125, whose
\* sums the floating-point additions of the code give without error
NoneType == "None"

Behavior(ops, ret, calls, loops, conds) ==
    [operations |-> ops, returns_type |-> ret, modifies_args |-> FALSE,
     calls_functions |-> calls, uses_loops |-> loops, uses_conditions |-> conds]

\* what one node of the walk adds to the behavior
behavior_of_node(t, n, b) ==
    LET k == t[n].kind
    IN  [b EXCEPT
          !.operations = IF k = "BinOp" THEN Append(@, t[FieldOf(t, n, "op")[1]].kind) ELSE @,
          !.returns_type = IF k = "Return" /\ FieldOf(t, n, "value") # <<>>
                           THEN t[FieldOf(t, n, "value")[1]].kind ELSE @,
          !.calls_functions = IF called_name(t, n) # "" THEN Append(@, called_name(t, n)) ELSE @,
          !.uses_loops = IF k \in {"For", "While"} THEN TRUE ELSE @,
          !.uses_conditions = IF k = "If" THEN TRUE ELSE @]

RECURSIVE behavior_of_nodes(_, _, _)
behavior_of_nodes(t, ns, b) ==
    IF ns = <<>> THEN b
    ELSE behavior_of_nodes(t, Tail(ns), behavior_of_node(t, Head(ns), b))

_analyze_function_behavior(t, func) ==
    behavior_of_nodes(t, walk(t, func), Behavior(<<>>, NoneType, <<>>, FALSE, FALSE))

\* score and factors after the five comparisons
behavior_score(b1, b2) ==
    [score |-> (IF b1.operations = b2.operations THEN 300 ELSE 0)
               + (IF b1.returns_type = b2.returns_type THEN 200 ELSE 0)
               + (IF Range(b1.calls_functions) \cap Range(b2.calls_functions) # {}
                  THEN 250 ELSE 0)
               + (IF b1.uses_loops = b2.uses_loops THEN 125 ELSE 0)
               + (IF b1.uses_conditions = b2.uses_conditions THEN 125 ELSE 0),
     factors |-> 300 + 200 + 250 + 125 + 125]

\* a threshold test that lets the threshold itself pass
Above70_inclusive(r) == 100 * r.num >= 70 * r.den

\* similarity > 0.70
Above70(r) == 100 * r.num > 70 * r.den

\* score / factors
_compare_behaviors(b1, b2) ==
    IF behavior_score(b1, b2).factors > 0
    THEN Rat(behavior_score(b1, b2).score, behavior_score(b1, b2).factors) ELSE Rat(0, 1)

function_entry(t, n) ==
    [name |-> t[n].id, line |-> lineno(t, n), behavior |-> _analyze_function_behavior(t, n)]

semantic_clone(f1, f2, similarity) ==
    [function1 |-> f1.name, function2 |-> f2.name, line1 |-> f1.line, line2 |-> f2.line,
     similarity |-> Times100(similarity)]

\* the pairs i < j, in the order of the two loops
index_pairs(n) ==
    SelectSeq(Flatten([i \in 1..n |-> [j \in 1..n |-> <<i, j>>]]), LAMBDA ij : ij[1] < ij[2])

semantic_pairs(functions) ==
    SelectSeq(index_pairs(Len(functions)),
              LAMBDA ij : Above70(_compare_behaviors(functions[ij[1]].behavior,
                                                     functions[ij[2]].behavior)))

semantic_clones_of(functions, found) ==
    [n \in 1..Len(found) |->
        semantic_clone(functions[found[n][1]], functions[found[n][2]],
                       _compare_behaviors(functions[found[n][1]].behavior,
                                          functions[found[n][2]].behavior))]

function_entries(t, defs) == [i \in 1..Len(defs) |-> function_entry(t, defs[i])]

\* detect_semantic_clones: self.semantic_clones after the call, which is
\* also what the call returns
detect_semantic_clones(t, semantic_clones) ==
    semantic_clones \o
    semantic_clones_of(function_entries(t, FunctionDefs(t)),
                       semantic_pairs(function_entries(t, FunctionDefs(t))))

\* SemanticCloneDetector.__init__
NewSemanticDetector == [semantic_clones |-> <<>>]

\* ------------------------------------------------------------------------
\* One SemanticCloneDetector and one detect_semantic_clones call on a parsed
\* source made of functions
BehaviorStatements == {"def", "for", "if", "call", "add", "return"}

\* the lines a source of functions may go on with: a function at the top
\* level, anything but a function inside one
FunctionLines(s, n) ==
    {l \in {SourceLine(st, d) : st \in BehaviorStatements, d \in 0..(n - 1)} :
        accepts(s, l) /\ (l.indent = 0 <=> l.stmt = "def")}

RECURSIVE FunctionParses(_)
FunctionParses(n) ==
    IF n = 0 THEN {NewParse}
    ELSE UNION {{parse_line(s, l) : l \in FunctionLines(s, n)} : s \in FunctionParses(n - 1)}

FunctionSources(n) == {s \in UNION {FunctionParses(k) : k \in 0..n} : ~s.header}

InitSemantic ==
    /\ pc = "parsed"
    /\ \E s \in FunctionSources(MaxStmts) :
          /\ file = s.lines
          /\ tree = s.tree
    /\ scanner = NewSemanticDetector
    /\ result = NoResult
    /\ cfg = SimpleGraph
    /\ node_counter = 0
    /\ dfg = SimpleGraph
    /\ call_graph = SimpleGraph
    /\ detector = Idle

DetectSemanticClones ==
    /\ pc = "parsed"
    /\ scanner' = [scanner EXCEPT !.semantic_clones = detect_semantic_clones(tree, @)]
    /\ result' = detect_semantic_clones(tree, scanner.semantic_clones)
    /\ pc' = "semantic"
    /\ UNCHANGED <<file, tree, cfg, node_counter, dfg, call_graph, detector>>

NextSemantic == DetectSemanticClones

SpecSemantic == InitSemantic /\ [][NextSemantic]_vars

\* the weights that apply to two behaviors, in thousandths
Weight(applies, w) == IF applies THEN w ELSE 0

WeightSum(b1, b2) ==
    Weight(b1.operations = b2.operations, 300)
    + Weight(b1.returns_type = b2.returns_type, 200)
    + Weight(\E c \in Range(b1.calls_functions) : c \in Range(b2.calls_functions), 250)
    + Weight(b1.uses_loops <=> b2.uses_loops, 125)
    + Weight(b1.uses_conditions <=> b2.uses_conditions, 125)

FunctionPairs ==
    {ij \in Range(FunctionDefs(tree)) \X Range(FunctionDefs(tree)) : ij[1] < ij[2]}

Reported(ij) == {k \in 1..Len(result) : result[k].line1 = ij[1] /\ result[k].line2 = ij[2]}

\* C26: _compare_behaviors gives the sum of the weights that apply, and a
\* pair of functions is reported exactly when the sum is greater than 0.70
C26_WeightedScore ==
    pc = "semantic" =>
        \A ij \in FunctionPairs :
            LET b1 == _analyze_function_behavior(tree, ij[1])
                b2 == _analyze_function_behavior(tree, ij[2])
            IN  /\ _compare_behaviors(b1, b2) = Rat(WeightSum(b1, b2), 1000)
                /\ IF WeightSum(b1, b2) > 700
                   THEN /\ Cardinality(Reported(ij)) = 1
                        /\ \A k \in Reported(ij) :
                              result[k].similarity = Rat(WeightSum(b1, b2), 10)
                   ELSE Reported(ij) = {}

\* two functions whose weights sum to 0.70 exactly: other operators, the
\* same return, a common callee, no loop, no conditional; nothing reported
C26_Witness ==
    /\ pc = "semantic"
    /\ \E ij \in FunctionPairs :
          /\ WeightSum(_analyze_function_behavior(tree, ij[1]),
                       _analyze_function_behavior(tree, ij[2])) = 700
          /\ Reported(ij) = {}

\* two functions that differ in their callees only: 0.75, reported
C26_WitnessReported ==
    /\ pc = "semantic"
    /\ \E ij \in FunctionPairs :
          /\ WeightSum(_analyze_function_behavior(tree, ij[1]),
                       _analyze_function_behavior(tree, ij[2])) = 750
          /\ Reported(ij) # {}

\* ------------------------------------------------------------------------
\* One CloneDetector and one SemanticCloneDetector, any sequence of
\* detection calls and reports
MaxDetections == 3

\* a file that repeats two lines, and one that holds them once
RunFiles ==
    {TextFile("A", TRUE, << <<"a">>, <<"b">>, <<"a">>, <<"b">> >>),
     TextFile("B", TRUE, << <<"a">>, <<"b">> >>)}

\* two functions of the same behavior, and one function alone
RunSources ==
    {ast_parse(<<SourceLine("def", 0), SourceLine("call", 1),
                 SourceLine("def", 0), SourceLine("call", 1)>>).tree,
     ast_parse(<<SourceLine("def", 0), SourceLine("call", 1)>>).tree}

\* detector.calls counts the calls, detector.last names the last detection
InitRuns ==
    /\ pc = "new"
    /\ detector = NewDetector(2) @@ [calls |-> 0, last |-> "none"]
    /\ scanner = NewSemanticDetector
    /\ file = <<>>
    /\ tree = <<>>
    /\ result = NoResult
    /\ cfg = SimpleGraph
    /\ node_counter = 0
    /\ dfg = SimpleGraph
    /\ call_graph = SimpleGraph

RunInFile(f) ==
    /\ detector.calls < MaxDetections
    /\ \E r \in {detect_clones_in_file(f, detector)} :
          /\ detector' = [detector EXCEPT !.clones = r.clones, !.calls = @ + 1,
                                          !.last = "in_file"]
          /\ result' = r.clones
    /\ pc' = "in_file"
    /\ file' = <<f>>
    /\ UNCHANGED <<tree, scanner, cfg, node_counter, dfg, call_graph>>

RunBetweenFiles(f1, f2) ==
    /\ detector.calls < MaxDetections
    /\ \E r \in {detect_clones_between_files(f1, f2, detector)} :
          /\ detector' = [detector EXCEPT !.clones = r.clones, !.calls = @ + 1,
                                          !.last = "between"]
          /\ result' = r.clones
    /\ pc' = "between"
    /\ file' = <<f1, f2>>
    /\ UNCHANGED <<tree, scanner, cfg, node_counter, dfg, call_graph>>

RunSemantic(t) ==
    /\ detector.calls < MaxDetections
    /\ scanner' = [scanner EXCEPT !.semantic_clones = detect_semantic_clones(t, @)]
    /\ result' = detect_semantic_clones(t, scanner.semantic_clones)
    /\ detector' = [detector EXCEPT !.calls = @ + 1]
    /\ pc' = "semantic"
    /\ tree' = t
    /\ UNCHANGED <<file, cfg, node_counter, dfg, call_graph>>

GetCloneReport ==
    /\ pc \in {"in_file", "between"}
    /\ result' = get_clone_report(detector.clones)
    /\ pc' = "report"
    /\ UNCHANGED <<detector, scanner, file, tree, cfg, node_counter, dfg, call_graph>>

NextRuns ==
    \/ \E f \in RunFiles : RunInFile(f)
    \/ \E f1, f2 \in RunFiles : RunBetweenFiles(f1, f2)
    \/ \E t \in RunSources : RunSemantic(t)
    \/ GetCloneReport

SpecRuns == InitRuns /\ [][NextRuns]_vars

\* what the last detection call found: the result of the same call on a
\* detector that has found nothing yet
FoundByLastCall ==
    IF detector.last = "in_file"
    THEN detect_clones_in_file(file[1], NewDetector(detector.min_lines)).clones
    ELSE detect_clones_between_files(file[1], file[2], NewDetector(detector.min_lines)).clones

\* C25: the list a detection call returns holds the clones that call found
\* and no others, and so do the totals of the report that follows it
C25_OnlyThisCall ==
    /\ pc \in {"in_file", "between"} => result = FoundByLastCall
    /\ pc = "semantic" => result = detect_semantic_clones(tree, <<>>)
    /\ pc = "report" =>
          /\ result.total_clones = Len(FoundByLastCall)
          /\ result.total_duplicated_lines =
                Sum([i \in 1..Len(FoundByLastCall) |-> FoundByLastCall[i].size])

\* ------------------------------------------------------------------------
\* the loops that have a node and statements in their body
LoopsWithBody == {n \in Loops : Body(n) # <<>>}

ControlFlowAnalysis == result.control_flow_analysis

\* C27: the cycles _find_cycles finds are as many as the loops with a body,
\* whose back-edges come from a node below the loop; cyclomatic_complexity
\* is that number plus 1, and the edges are as many as the nodes that are
\* not at the top level plus the loops with a body
C27_CyclesCountLoops ==
    pc = "analyzed" =>
        /\ Len(_find_cycles(cfg)) = Cardinality(LoopsWithBody)
        /\ \A n \in Loops : \A i \in BackEdges(n) :
              \E m \in Below(n) \ {n} : Visited(m) /\ cfg.edges[i][1] = IdOf(m)
        /\ ControlFlowAnalysis.cyclomatic_complexity = Cardinality(LoopsWithBody) + 1
        /\ ControlFlowAnalysis.total_edges =
              (ControlFlowAnalysis.total_nodes - Len(TopLevel(tree)))
              + Cardinality(LoopsWithBody)

\* a loop in a loop: both back-edges leave the same node, two cycles
C27_Witness ==
    /\ pc = "analyzed"
    /\ \E n, m \in LoopsWithBody : n # m /\ LastVisited(n) = LastVisited(m)
    /\ Len(_find_cycles(cfg)) = 2
    /\ ControlFlowAnalysis.cyclomatic_complexity = 3

\* ------------------------------------------------------------------------
\* The networkx engine (deep_analysis.py): the same builder on an
\* nx.DiGraph, and an analysis by nx.descendants and nx.simple_cycles

\* self.cfg.clear(); self.node_counter = 0; then the same visit
build_control_flow_graph_nx(t, old) ==
    visit_all(t, iter_child_nodes(t, 0), None,
              [g |-> [old.g EXCEPT !.keys = <<>>, !.attrs = <<>>, !.edges = <<>>],
               counter |-> 0])

\* a search that stops at the successors of the source
descendants_near(g, source) == Range(successors(g, source)) \ {source}

\* nx.descendants(G, source): what a search from source reaches, without
\* the source itself
descendants(g, source) == Reach(g, <<source>>, {}) \ {source}

RECURSIVE simple_paths(_, _)
\* the elementary paths that extend p through nodes above its first node
simple_paths(g, p) ==
    {p} \cup UNION {simple_paths(g, Append(p, m)) :
                       m \in {x \in Range(successors(g, p[Len(p)])) :
                                 x > p[1] /\ x \notin Range(p)}}

RECURSIVE SeqOfSet(_)
SeqOfSet(S) ==
    IF S = {} THEN <<>>
    ELSE LET x == CHOOSE y \in S : \A z \in S : Len(y) < Len(z) \/
                        (Len(y) = Len(z) /\ \A i \in 1..Len(y) :
                            (\A j \in 1..(i - 1) : y[j] = z[j]) => y[i] <= z[i])
         IN  <<x>> \o SeqOfSet(S \ {x})

\* list(nx.simple_cycles(G)): every elementary cycle once, a self-loop
\* included; the order and the rotation of the cycles are the library's, and
\* nothing the analysis returns depends on them
simple_cycles(g) ==
    SeqOfSet(UNION {{p \in simple_paths(g, <<s>>) :
                        s \in Range(successors(g, p[Len(p)]))} : s \in Range(g.keys)})

\* simple_cycles raises nothing on a DiGraph, so `cycles` is always bound
_analyze_control_flow_nx(g) ==
    LET roots == root_nodes(g)
        reachable == UNION {descendants(g, roots[i]) \cup {roots[i]} : i \in 1..Len(roots)}
        unreachable == Range(g.keys) \ reachable
        cycles == simple_cycles(g)
        bn == branch_nodes(g)
        issues == (IF Len(g.keys) > 0 /\ roots # <<>> /\ unreachable # {}
                   THEN <<Issue("unreachable_code", "warning", Cardinality(unreachable))>>
                   ELSE <<>>) \o
                  infinite_loop_issues(g, cycles) \o
                  (IF Len(bn) > BranchThreshold
                   THEN <<Issue("high_branching", "warning", Len(bn))>> ELSE <<>>)
    IN  [issues |-> issues,
         total_nodes |-> number_of_nodes(g),
         total_edges |-> number_of_edges(g),
         branch_points |-> Len(bn),
         cyclomatic_complexity |-> Len(cycles) + 1]

\* trees for both engines: conditionals, nested loops and a `try` with a
\* handler, deep enough for a root to have descendants below its children
EnginesFamily ==
    [kids |-> [k \in {"Module", "If", "While", "Try", "ExceptHandler"} |->
        CASE k = "Module" -> JumpStmtIn({"If", "While", "Try", "Pass"}, "body")
          [] k = "If" -> JumpStmtIn({"While", "Pass"}, "body") \cup JumpStmtIn({"Pass"}, "orelse")
          [] k = "While" -> JumpStmtIn({"If", "While", "Pass"}, "body")
          [] k = "Try" -> JumpStmtIn({"Pass"}, "body") \cup {Tmpl("ExceptHandler", "handlers")}
          [] k = "ExceptHandler" -> JumpStmtIn({"While", "Pass"}, "body")],
     required |-> <<>>]

\* One tree, analysed by the engine that was imported
InitEngines ==
    /\ \/ pc = "parsed" /\ cfg = SimpleGraph /\ dfg = SimpleGraph /\ call_graph = SimpleGraph
       \/ pc = "parsed_nx" /\ cfg = DiGraph /\ dfg = DiGraph /\ call_graph = DiGraph
    /\ tree \in TreesUpTo(MaxNodes, EnginesFamily)
    /\ node_counter = 0
    /\ result = NoResult
    /\ file = Idle
    /\ detector = Idle
    /\ scanner = Idle

BuildControlFlowGraphNx ==
    /\ pc = "parsed_nx"
    /\ LET st == build_control_flow_graph_nx(tree, [g |-> cfg, counter |-> node_counter])
       IN  /\ cfg' = st.g
           /\ node_counter' = st.counter
    /\ pc' = "built_nx"
    /\ UNCHANGED <<tree, dfg, call_graph, result, file, detector, scanner>>

AnalyzeControlFlowNx ==
    /\ pc = "built_nx"
    /\ result' = [status |-> "ok", control_flow_analysis |-> _analyze_control_flow_nx(cfg)]
    /\ pc' = "analyzed_nx"
    /\ UNCHANGED <<tree, cfg, node_counter, dfg, call_graph, file, detector, scanner>>

NextEngines ==
    \/ BuildControlFlowGraph
    \/ AnalyzeControlFlow
    \/ BuildControlFlowGraphNx
    \/ AnalyzeControlFlowNx

SpecEngines == InitEngines /\ [][NextEngines]_vars

\* what the standalone engine returns for the tree of the state
StandaloneAnalysis ==
    _analyze_control_flow(build_control_flow_graph(tree, [g |-> SimpleGraph, counter |-> 0]).g)

IssueBag(issues) == [x \in Range(issues) |-> Cardinality({i \in 1..Len(issues) : issues[i] = x})]

\* C29: for every tree the networkx engine returns the control-flow analysis
\* the standalone engine returns: the same total_nodes, total_edges,
\* branch_points and cyclomatic_complexity and the same multiset of issues
C29_SameAnalysis ==
    pc = "analyzed_nx" =>
        /\ result.control_flow_analysis.total_nodes = StandaloneAnalysis.total_nodes
        /\ result.control_flow_analysis.total_edges = StandaloneAnalysis.total_edges
        /\ result.control_flow_analysis.branch_points = StandaloneAnalysis.branch_points
        /\ result.control_flow_analysis.cyclomatic_complexity =
              StandaloneAnalysis.cyclomatic_complexity
        /\ IssueBag(result.control_flow_analysis.issues) = IssueBag(StandaloneAnalysis.issues)

\* nested loops analysed by the networkx engine: two cycles, and issues
C29_Witness ==
    /\ pc = "analyzed_nx"
    /\ result.control_flow_analysis.cyclomatic_complexity = 3
    /\ result.control_flow_analysis.issues # <<>>

\* ------------------------------------------------------------------------
\* The complexity penalty in the standalone engine (a run of SpecEngine)
Analysed == pc = "returned" /\ result.status = "ok"

\* 100 minus the penalties of the issues, kept between 0 and 100, in
\* hundredths
IssueScore ==
    MaxOf(0, MinOf(Hundredths(100),
        Hundredths(100)
          - Hundredths(IssuePenalties(result.control_flow_analysis.issues))
          - Hundredths(IssuePenalties(result.data_flow_analysis.issues))
          - Hundredths(IssuePenalties(result.dependency_analysis.issues))))

\* C30 as stated: after every analysis of the standalone engine
\* total_edges < 2 * total_nodes, the data-flow graph has no edges,
\* combined_complexity_score is below the threshold 5 and the quality
\* score is what the issues alone give
C30_PenaltyNeverApplied ==
    Analysed =>
        /\ result.control_flow_analysis.total_edges
              < 2 * result.control_flow_analysis.total_nodes
        /\ number_of_edges(dfg) = 0
        /\ result.data_flow_analysis.data_dependencies = 0
        /\ result.complexity_metrics.combined_complexity_score < Hundredths(ComplexityLimit)
        /\ result.code_quality_score = IssueScore

\* C30 amended: the same, with total_edges < 2 * total_nodes for a graph
\* that has a node and no edge for the empty graph of an empty source
C30_PenaltyNeverAppliedNonEmpty ==
    Analysed =>
        /\ result.control_flow_analysis.total_nodes > 0 =>
              result.control_flow_analysis.total_edges
                 < 2 * result.control_flow_analysis.total_nodes
        /\ result.control_flow_analysis.total_nodes = 0 =>
              result.control_flow_analysis.total_edges = 0
        /\ number_of_edges(dfg) = 0
        /\ result.data_flow_analysis.data_dependencies = 0
        /\ result.complexity_metrics.combined_complexity_score < Hundredths(ComplexityLimit)
        /\ result.code_quality_score = IssueScore

\* a source with a loop: as many edges as nodes in the CFG, a complexity
\* above 0 and a score lowered by an issue
C30_Witness ==
    /\ Analysed
    /\ result.control_flow_analysis.total_edges >= result.control_flow_analysis.total_nodes
    /\ result.control_flow_analysis.total_nodes > 0
    /\ result.complexity_metrics.combined_complexity_score > 0
    /\ result.code_quality_score < Hundredths(100)

====
